---- MODULE Spec2Model ----
(***************************************************************************)
(* Model of donatemail.  The retrieval run: ImapDownload.get_mails_mbox    *)
(* (src/imap_download.py) with its helpers _fetch_mail, _reconnect, login, *)
(* logout, _set_error, and the DownloadResult it fills                     *)
(* (src/download_result.py).  The folder listing: list_folders with        *)
(* _parse_folder, _test_flags and get_folder_count.  The folder-name       *)
(* codec: encode_mutf7 and decode_mutf7 (src/mutf7.py).  The server is the *)
(* environment: every call made on the connection draws its outcome from   *)
(* the outcomes the imaplib connection can produce (a status, or a raised  *)
(* exception).  Spec is the retrieval run, SpecLong the run over a folder  *)
(* of more than 20 messages, SpecList the listing, SpecSession the calls   *)
(* of login() and logout(), SpecCodec the calls of the codec.  The         *)
(* manifest: DownloadResult.to_dict / from_dict with the context           *)
(* (src/download_context.py), SpecManifest.  The delivery:                 *)
(* MboxDelivery.transform and clean (src/mbox_delivery.py), SpecDelivery.  *)
(***************************************************************************)
EXTENDS Integers, Sequences, FiniteSets, TLC

(* ------------------------------ bounds --------------------------------- *)
\* largest message sequence number the search may return
MaxNum == 3
\* largest reconnect threshold the caller may configure
MaxThreshold == 2
\* number of retrieval runs made on one ImapDownload object
MaxRuns == 2

(* ------------------------- program constants --------------------------- *)
\* wait of a scheduled or abort-triggered reconnect (default wait_seconds)
WaitDefault == 3
\* wait of the reconnect that follows a NO response
WaitNo == 600
\* wait of the reconnect that precedes a skip
WaitSkip == 2
\* the container is flushed every FlushEvery appended messages
FlushEvery == 20
\* a running callback is sent every ProgressEvery appended messages
ProgressEvery == 5

VARIABLES
    pc,          \* position of the run inside get_mails_mbox
    mailconn,    \* session state of self._mailconn ("Disconnected" = None)
    threshold,   \* context.threshold
    progress_cb, \* TRUE when the caller passed a progress callback
    numbers,     \* the plan: sequence numbers returned by the search
    idx,         \* position of the for loop in numbers (1-based)
    count_msgs,  \* local count_msgs
    rv,          \* status returned by the last fetch
    data,        \* message returned by the last fetch (its number), 0 = none
    exc,         \* how the run leaves the loop: "none", "return", or the exception raised
    ret_code,    \* self.ret_code
    last_error,  \* self.last_error
    result,      \* the DownloadResult
    dest_mbox,   \* the mbox container at the destination path
    callbacks,   \* the calls made to progress_cb, in order
    clock,       \* datetime.now(), a logical clock
    runs,        \* number of runs started
    trail,       \* reconnects and fetches made for the current message
    proactiveAt, \* plan positions before which a scheduled reconnect was made
    firstTryOK,  \* every fetch of the run so far returned OK at its first attempt
    lf,          \* list_folders: its arguments, the LIST data, self.folders
    sess,        \* calls of login() / logout() made by the owner of the object
    codec,       \* mutf7: the text given to the codec and what came out
    manifest,    \* one to_dict / from_dict round trip of a DownloadResult
    bag,         \* one MboxDelivery: its source files, archive and position
    gui,         \* the window of DonateGui: its widgets, its worker threads
    duo          \* two runs that differ in the password of the account only

vars == <<pc, mailconn, threshold, progress_cb, numbers, idx, count_msgs, rv,
          data, exc, ret_code, last_error, result, dest_mbox, callbacks,
          clock, runs, trail, proactiveAt, firstTryOK, lf, sess, codec,
          manifest, bag, gui, duo>>

\* the variables of the other operations of the program, which a retrieval
\* run leaves alone
xvars == <<lf, sess, codec, manifest, bag, gui, duo>>

\* the variables of a retrieval run
rvars == <<pc, mailconn, threshold, progress_cb, numbers, idx, count_msgs, rv,
           data, exc, ret_code, last_error, result, dest_mbox, callbacks,
           clock, runs, trail, proactiveAt, firstTryOK>>

(* --------------------------- server outcomes --------------------------- *)
\* IMAP4_SSL(...) + login(): ok, DNS failure, connect timeout, another
\* OSError (connection refused), credential rejection
LoginOutcomes == {"ok", "gaierror", "TimeoutError", "OSError", "authfailed"}
\* logout(): answered, a raised protocol error (abort included), or a read
\* timeout (as any OSError the socket raises, it is not a protocol error)
LogoutOutcomes == {"ok", "error", "TimeoutError"}
\* select(): a status, or a raised protocol error / abort / timeout
SelectOutcomes == {"OK", "NO", "error", "abort", "TimeoutError"}
\* search(): a status, or a raised protocol error / abort / timeout
SearchOutcomes == {"OK", "NO", "error", "abort", "TimeoutError"}
\* fetch(): a status, or a raised protocol error / abort / timeout
FetchStatus == {"OK", "NO", "BAD"}
FetchRaises == {"error", "abort", "TimeoutError"}
FetchOutcomes == FetchStatus \cup FetchRaises

\* ascending sequences of distinct numbers of 1..MaxNum (search results)
RECURSIVE SeqOfSet(_, _)
SeqOfSet(S, n) ==
    IF n > MaxNum THEN << >>
    ELSE IF n \in S THEN <<n>> \o SeqOfSet(S, n + 1) ELSE SeqOfSet(S, n + 1)

Plans == {SeqOfSet(S, 1) : S \in SUBSET (1..MaxNum)}

(* ----------------------------- DownloadResult -------------------------- *)
\* DownloadResult.__init__
NewResult ==
    [total_mails |-> 0, download_mails |-> 0, skip_mails |-> << >>,
     start_datetime |-> 0, end_datetime |-> 0]

\* DownloadResult.start, with the start_datetime setter (0 = None)
start(res, now) ==
    [res EXCEPT !.total_mails = 0,
                !.start_datetime = now,
                !.end_datetime = IF res.end_datetime = 0 THEN now ELSE @,
                !.download_mails = 0,
                !.skip_mails = << >>]

\* DownloadResult.end(total, count)
end(res, total, count, now) ==
    [res EXCEPT !.end_datetime = now,
                !.total_mails = total,
                !.download_mails = count]

\* a skip that is not recorded
add_skip_mail_Lost(res, number) == res

\* DownloadResult.add_skip_mail
add_skip_mail(res, number) ==
    [res EXCEPT !.skip_mails = Append(@, number)]

(* ------------------------------ the session ---------------------------- *)
\* a login that never finds a connection to reuse
Held_Never(conn) == FALSE

\* lines 119 and 135: "self._mailconn is not None"
Held(conn) == conn # "Disconnected"

\* ImapDownload.login: no-op when a connection is held; the constructor
\* raising leaves _mailconn None, a rejected login leaves the connection
login(conn, lo) ==
    IF Held(conn) THEN conn
    ELSE IF lo = "ok" THEN "Authenticated"
    ELSE IF lo = "authfailed" THEN "Connected"
    ELSE "Disconnected"

\* a login whose failure is swallowed
loginExc_Swallowed(conn, lo) == "none"

\* exception raised by ImapDownload.login ("none" when it returns)
loginExc(conn, lo) ==
    IF Held(conn) \/ lo = "ok" THEN "none" ELSE lo

\* ImapDownload.logout: nothing without a connection; a protocol error
\* (IMAP4.error, abort included) is swallowed and the handle is dropped; a
\* timeout of the socket while reading the answer is not a protocol error:
\* (or another OSError of a socket that timed out before) is not a protocol
\* error: it leaves logout before "self._mailconn = None", the handle is
\* kept on a session imaplib has put in its LOGOUT state
logout(conn, go) ==
    IF conn = "Disconnected" THEN conn
    ELSE IF go \in {"TimeoutError", "OSError"} THEN "LoggedOut"
    ELSE "Disconnected"

\* exception raised by ImapDownload.logout ("none" when it returns)
logoutExc(conn, go) ==
    IF conn # "Disconnected" /\ go \in {"TimeoutError", "OSError"} THEN go
    ELSE "none"

\* _mailconn.select(..., readonly=True) on a session in state conn
select(conn, so) ==
    IF conn \in {"Authenticated", "FolderSelected"}
    THEN (IF so = "OK" THEN "FolderSelected" ELSE "Authenticated")
    ELSE conn

\* exception raised by select: a command that is illegal in the state raises
selectExc(conn, so) ==
    IF conn \in {"Authenticated", "FolderSelected"}
    THEN (IF so \in {"OK", "NO"} THEN "none" ELSE so)
    ELSE "error"

\* _mailconn.close(): leaves the selected folder; errors are swallowed
close(conn) ==
    IF conn = "FolderSelected" THEN "Authenticated" ELSE conn

\* a schedule keyed one message late
NeedReconnect_Late(num) == num = 0 \/ (num - 1) % threshold = 0

\* _reconnect, the test "num % self.threshold != 0: return"
NeedReconnect(num) == num % threshold = 0

\* a reconnect that does not select the folder again
reselect_Skipped(c, so) == [conn |-> c, exc |-> "none", sel |-> "none"]

\* _reconnect, lines 398-399: the read-only select of the folder on the
\* connection login() returned; sel is the outcome of the command issued
reselect(c, so) ==
    [conn |-> select(c, so), exc |-> selectExc(c, so), sel |-> so]

\* _reconnect(num, folder): nothing when the test fails, else logout, wait,
\* login, select; the session after it
reconnectConn(num, go, lo, so) ==
    IF ~NeedReconnect(num) THEN mailconn
    ELSE LET c0 == logout(mailconn, go)
         IN  IF logoutExc(mailconn, go) # "none" THEN c0
             ELSE IF loginExc(c0, lo) # "none" THEN login(c0, lo)
             ELSE reselect(login(c0, lo), so).conn

\* exception raised by _reconnect ("none" when it returns)
reconnectExc(num, go, lo, so) ==
    IF ~NeedReconnect(num) THEN "none"
    ELSE LET c0 == logout(mailconn, go)
         IN  IF logoutExc(mailconn, go) # "none" THEN logoutExc(mailconn, go)
             ELSE IF loginExc(c0, lo) # "none" THEN loginExc(c0, lo)
             ELSE reselect(login(c0, lo), so).exc

\* the select command _reconnect issued ("none" when it issued none)
reconnectSel(num, go, lo, so) ==
    IF ~NeedReconnect(num) THEN "none"
    ELSE LET c0 == logout(mailconn, go)
         IN  IF logoutExc(mailconn, go) # "none" \/ loginExc(c0, lo) # "none"
             THEN "none"
             ELSE reselect(login(c0, lo), so).sel

\* entry of trail for a reconnect / a fetch
Rec(why, wait, conn, sel) == [ev |-> "reconnect", why |-> why, wait |-> wait,
                              num |-> 0, conn |-> conn, sel |-> sel]
Fet(num, conn, out) == [ev |-> "fetch", why |-> out, wait |-> 0,
                        num |-> num, conn |-> conn, sel |-> "none"]

\* trail after _reconnect(num, ...) called for the reason why
reconnectTrail(tr, num, why, wait, go, lo, so) ==
    IF ~NeedReconnect(num) THEN tr
    ELSE Append(tr, Rec(why, wait, reconnectConn(num, go, lo, so),
                        reconnectSel(num, go, lo, so)))

\* outcome of a fetch command on a session in state conn: it is sent only
\* when a folder is selected, otherwise the command raises
fetchOutcome(conn, fo) == IF conn = "FolderSelected" THEN fo ELSE "error"

(* ------------------------------ error report --------------------------- *)
\* the except clauses without the TimeoutError clause
Caught_NoTimeout(e) == e \in {"ValueError", "gaierror", "error", "abort",
                              "authfailed"}

\* the except clauses of get_mails_mbox: which exceptions are caught
Caught(e) == e \in {"ValueError", "TimeoutError", "gaierror", "error",
                    "abort", "authfailed"}

\* the message of each except clause
ErrMsg(e) ==
    CASE e = "ValueError" -> "Erreur de recuperation"
      [] e = "TimeoutError" -> "Delai de connexion depasse"
      [] e = "gaierror" -> "Erreur de connexion"
      [] e = "authfailed" -> "Erreur de connectison"
      [] OTHER -> "Erreur de recuperation"

\* one call of progress_cb
Cb(phase, num, total, msg) ==
    [phase |-> phase, num |-> num, total |-> total, msg |-> msg]

\* progress_cb(...) guarded by "if progress_cb is not None"
Report(cbs, phase, num, total, msg) ==
    IF progress_cb THEN Append(cbs, Cb(phase, num, total, msg)) ELSE cbs

(* --------------------------------- Init -------------------------------- *)
NewMbox == [exists |-> FALSE, open |-> FALSE, locked |-> FALSE,
            msgs |-> << >>, unflushed |-> 0]

\* the operations other than the retrieval run have not been called
NoList == [with_counts |-> FALSE, max_folders |-> 0, data |-> << >>,
           folders |-> << >>, msgs_count |-> 0, f_count |-> 0,
           sorted |-> << >>]
NoSess == [calls |-> 0, opened |-> 0, auths |-> 0, handle |-> 0, ret |-> 0,
           raised |-> "none", last |-> "none"]
NoCodec == [text |-> << >>, out |-> << >>, raised |-> "none", op |-> "none",
            folder |-> [name_in_mutf7 |-> << >>, name |-> << >>, count |-> -1]]

\* None and a present value
None == << >>
Some(v) == <<v>>

\* DownloadResult.__init__, download_result.py lines 14-21; no dictionary yet
NewDownloadResult ==
    [context |-> None, total_mails |-> 0, start_datetime |-> None,
     end_datetime |-> None, download_mails |-> 0, skip_mails |-> << >>,
     logs |-> << >>]
Returned(kind, v) == [raised |-> "none", kind |-> kind, v |-> <<v>>]
Raise(e) == [raised |-> e, kind |-> "none", v |-> << >>]
NotCalled == [raised |-> "none", kind |-> "none", v |-> << >>]
\* MboxDelivery before its source files are known
NoBag == [pos |-> "none", progress_cb |-> FALSE, src_mbox |-> << >>,
          src_json |-> << >>, mbox_bytes |-> << >>, json_bytes |-> << >>,
          has_context |-> FALSE, count |-> 0, archive |-> << >>,
          cur |-> [name |-> << >>, rest |-> << >>, fed |-> << >>, written |-> << >>],
          data_name |-> << >>, data_md5 |-> << >>,
          metadata_name |-> << >>, metadata_md5 |-> << >>,
          phases |-> << >>, exc |-> "none", failed |-> << >>, ret |-> << >>,
          mbox_exists |-> FALSE, json_exists |-> FALSE, removable |-> << >>]
NoManifest == [r |-> NewDownloadResult, dct |-> NotCalled, back |-> NotCalled,
               op |-> "none", years |-> <<None, None>>, search |-> << >>]

\* DonateGui.__init__ and build_gui, donate_gui.py lines 47-85 and 468-523:
\* no server, no account, no folder; the retrieve and delivery buttons are
\* disabled; threads are the worker threads that are alive
NewGui == [server |-> FALSE, user |-> FALSE, folders |-> FALSE,
           selected_folder |-> FALSE, folders_btn |-> "normal",
           retrieve_btn |-> "disabled", delivery_btn |-> "disabled",
           widgets |-> "normal", cursor |-> "", threads |-> << >>,
           mbox |-> FALSE, removed_locked |-> FALSE, raised |-> "none"]

\* no pair of runs is being compared
NoDuo == [pos |-> "none", pw |-> << >>, run |-> << >>]

\* ImapDownload.__init__ and the context it builds
Constructed ==
    /\ pc = "idle"
    /\ mailconn = "Disconnected"
    /\ threshold \in 1..MaxThreshold
    /\ progress_cb = TRUE
    /\ numbers = << >>
    /\ idx = 0
    /\ count_msgs = 0
    /\ rv = "none"
    /\ data = 0
    /\ exc = "none"
    /\ ret_code = TRUE
    /\ last_error = "None"
    /\ result = NewResult
    /\ dest_mbox = NewMbox
    /\ callbacks = << >>
    /\ clock = 1
    /\ runs = 0
    /\ trail = << >>
    /\ proactiveAt = {}
    /\ firstTryOK = TRUE

Init ==
    /\ Constructed
    /\ gui = NewGui
    /\ duo = NoDuo
    /\ lf = NoList
    /\ sess = NoSess
    /\ codec = NoCodec
    /\ manifest = NoManifest
    /\ bag = NoBag

\* no run is in progress: before the first call, after a return, after an
\* exception left get_mails_mbox uncaught
Resting == pc \in {"idle", "returned", "raised"}

(* ------------------------------ the container -------------------------- *)
\* _clean_mbox + mailbox.mbox(create=True) + lock()
OpenMbox == [exists |-> TRUE, open |-> TRUE, locked |-> TRUE,
             msgs |-> << >>, unflushed |-> 0]

\* a loop that never flushes after an append
FlushDue_Never(cnt) == FALSE

\* line 515: "if count_msgs % 20 == 0", cnt is the count after the append
FlushDue(cnt) == cnt % FlushEvery = 0

\* an add that writes the message at the head of the container
AddMbox_Front(mb, d, cnt) ==
    [mb EXCEPT !.msgs = <<d>> \o @,
               !.unflushed = IF FlushDue(cnt) THEN 0 ELSE @ + 1]

\* dest_mbox.add + "if count_msgs % 20 == 0: dest_mbox.flush()", cnt is the
\* count after the append
AddMbox(mb, d, cnt) ==
    [mb EXCEPT !.msgs = Append(@, d),
               !.unflushed = IF FlushDue(cnt) THEN 0 ELSE @ + 1]

\* a flush that writes the container anew, without what it held
FlushMbox_Rewrite(mb) == [mb EXCEPT !.msgs = << >>, !.unflushed = 0]

\* dest_mbox.flush()
FlushMbox(mb) == [mb EXCEPT !.unflushed = 0]

\* a close that leaves the lock
CloseMbox_NoUnlock(mb) == [mb EXCEPT !.unflushed = 0, !.open = FALSE]

\* dest_mbox.close(): flush, unlock, close
CloseMbox(mb) == [mb EXCEPT !.unflushed = 0, !.locked = FALSE, !.open = FALSE]

(* ------------------------------ get_mails_mbox ------------------------- *)
\* a run that removes the container before it connects
Begin_CleanFirst ==
    /\ Resting
    /\ runs < MaxRuns
    /\ \E cb \in BOOLEAN : progress_cb' = cb
    /\ pc' = "login"
    /\ last_error' = "None"
    /\ ret_code' = TRUE
    /\ result' = start(result, clock)
    /\ clock' = clock + 1
    /\ runs' = runs + 1
    /\ numbers' = << >>
    /\ idx' = 0
    /\ count_msgs' = 0
    /\ rv' = "none"
    /\ data' = 0
    /\ exc' = "none"
    /\ callbacks' = << >>
    /\ trail' = << >>
    /\ proactiveAt' = {}
    /\ firstTryOK' = TRUE
    /\ dest_mbox' = NewMbox
    /\ UNCHANGED <<mailconn, threshold>>
    /\ UNCHANGED xvars

\* lines 450-455: reset of the error fields and of the result
Begin ==
    /\ Resting
    /\ runs < MaxRuns
    /\ \E cb \in BOOLEAN : progress_cb' = cb
    /\ pc' = "login"
    /\ last_error' = "None"
    /\ ret_code' = TRUE
    /\ result' = start(result, clock)
    /\ clock' = clock + 1
    /\ runs' = runs + 1
    /\ numbers' = << >>
    /\ idx' = 0
    /\ count_msgs' = 0
    /\ rv' = "none"
    /\ data' = 0
    /\ exc' = "none"
    /\ callbacks' = << >>
    /\ trail' = << >>
    /\ proactiveAt' = {}
    /\ firstTryOK' = TRUE
    /\ UNCHANGED <<mailconn, threshold, dest_mbox>>
    /\ UNCHANGED xvars

\* line 458: self.login()
Login ==
    /\ pc = "login"
    /\ \E lo \in LoginOutcomes :
          /\ mailconn' = login(mailconn, lo)
          /\ exc' = loginExc(mailconn, lo)
          /\ pc' = IF loginExc(mailconn, lo) = "none" THEN "select" ELSE "except"
    /\ UNCHANGED <<threshold, progress_cb, numbers, idx, count_msgs, rv, data,
                   ret_code, last_error, result, dest_mbox, callbacks, clock,
                   runs, trail, proactiveAt, firstTryOK>>
    /\ UNCHANGED xvars

\* line 459: select of the folder, the status is not looked at
Select ==
    /\ pc = "select"
    /\ \E so \in SelectOutcomes :
          /\ mailconn' = select(mailconn, so)
          /\ exc' = selectExc(mailconn, so)
          /\ pc' = IF selectExc(mailconn, so) = "none" THEN "search" ELSE "except"
    /\ UNCHANGED <<threshold, progress_cb, numbers, idx, count_msgs, rv, data,
                   ret_code, last_error, result, dest_mbox, callbacks, clock,
                   runs, trail, proactiveAt, firstTryOK>>
    /\ UNCHANGED xvars

\* outcome of the search command on a session in state conn
searchOutcome(conn, so) == IF conn = "FolderSelected" THEN so ELSE "error"

\* lines 463-474: the search; a status other than OK raises ValueError; ps
\* are the plans the server may answer
SearchP(ps) ==
    /\ pc = "search"
    /\ \E so \in SearchOutcomes, p \in ps :
          LET o == searchOutcome(mailconn, so) IN
          IF o = "OK"
          THEN /\ numbers' = p
               /\ callbacks' = Report(callbacks, "start", 0, Len(p), "folder")
               /\ pc' = "open"
               /\ exc' = exc
          ELSE /\ numbers' = numbers
               /\ callbacks' = callbacks
               /\ pc' = "except"
               /\ exc' = IF o = "NO" THEN "ValueError" ELSE o
    /\ UNCHANGED <<mailconn, threshold, progress_cb, idx, count_msgs, rv, data,
                   ret_code, last_error, result, dest_mbox, clock, runs, trail,
                   proactiveAt, firstTryOK>>
    /\ UNCHANGED xvars

\* lines 463-474 with the plans over 1..MaxNum
Search == SearchP(Plans)

\* lines 476-478: the container is recreated and locked
Open ==
    /\ pc = "open"
    /\ dest_mbox' = OpenMbox
    /\ idx' = 1
    /\ pc' = "loop"
    /\ UNCHANGED <<mailconn, threshold, progress_cb, numbers, count_msgs, rv,
                   data, exc, ret_code, last_error, result, callbacks, clock,
                   runs, trail, proactiveAt, firstTryOK>>
    /\ UNCHANGED xvars

\* line 480, the plan is exhausted: the loop ends normally
LoopExit ==
    /\ pc = "loop"
    /\ idx > Len(numbers)
    /\ pc' = "finally"
    /\ UNCHANGED <<mailconn, threshold, progress_cb, numbers, idx, count_msgs,
                   rv, data, exc, ret_code, last_error, result, dest_mbox,
                   callbacks, clock, runs, trail, proactiveAt, firstTryOK>>
    /\ UNCHANGED xvars

\* a scheduled reconnect keyed to the plan position
Proactive_ByPosition ==
    /\ pc = "loop"
    /\ idx <= Len(numbers)
    /\ \E go \in LogoutOutcomes, lo \in LoginOutcomes, so \in SelectOutcomes :
          /\ mailconn' = reconnectConn(idx, go, lo, so)
          /\ trail' = reconnectTrail(<< >>, idx, "proactive",
                                     WaitDefault, go, lo, so)
          /\ exc' = reconnectExc(idx, go, lo, so)
          /\ pc' = IF reconnectExc(idx, go, lo, so) = "none"
                   THEN "fetch1" ELSE "finally"
    /\ proactiveAt' = IF NeedReconnect(idx)
                      THEN proactiveAt \cup {idx} ELSE proactiveAt
    /\ UNCHANGED <<threshold, progress_cb, numbers, idx, count_msgs, rv, data,
                   ret_code, last_error, result, dest_mbox, callbacks, clock,
                   runs, firstTryOK>>
    /\ UNCHANGED xvars

\* lines 480-482 and 409: next planned number, self._reconnect(count_msgs + 1)
Proactive ==
    /\ pc = "loop"
    /\ idx <= Len(numbers)
    /\ \E go \in LogoutOutcomes, lo \in LoginOutcomes, so \in SelectOutcomes :
          /\ mailconn' = reconnectConn(count_msgs + 1, go, lo, so)
          /\ trail' = reconnectTrail(<< >>, count_msgs + 1, "proactive",
                                     WaitDefault, go, lo, so)
          /\ exc' = reconnectExc(count_msgs + 1, go, lo, so)
          /\ pc' = IF reconnectExc(count_msgs + 1, go, lo, so) = "none"
                   THEN "fetch1" ELSE "finally"
    /\ proactiveAt' = IF NeedReconnect(count_msgs + 1)
                      THEN proactiveAt \cup {idx} ELSE proactiveAt
    /\ UNCHANGED <<threshold, progress_cb, numbers, idx, count_msgs, rv, data,
                   ret_code, last_error, result, dest_mbox, callbacks, clock,
                   runs, firstTryOK>>
    /\ UNCHANGED xvars

\* a first fetch whose timeout is handled like an abort
onRaise1_RetryTimeout(o) ==
    IF o \in {"abort", "TimeoutError"} THEN "abortReconnect" ELSE "finally"

\* lines 412-419: the handlers of the first fetch: abort is handled by a
\* reconnect and a retry, TimeoutError and any other error leave _fetch_mail
onRaise1(o) == IF o = "abort" THEN "abortReconnect" ELSE "finally"

\* a retry that is itself retried on abort
onRaise2_Again(o) == IF o = "abort" THEN "abortReconnect" ELSE "finally"

\* line 416: the retried fetch is inside the handler: whatever it raises
\* leaves _fetch_mail
onRaise2(o) == "finally"

\* lines 421-427: a status NO is retried after a reconnect, any other status
\* goes back to the loop
AfterFetch(r) == IF r = "NO" THEN "noReconnect" ELSE "dispatch"

\* line 411: first fetch of the message; abort is handled, TimeoutError is
\* logged and raised again, another protocol error propagates
Fetch1 ==
    /\ pc = "fetch1"
    /\ \E fo \in FetchOutcomes :
          LET o == fetchOutcome(mailconn, fo) IN
          /\ trail' = Append(trail, Fet(numbers[idx], mailconn, o))
          /\ firstTryOK' = (firstTryOK /\ o = "OK")
          /\ IF o \in FetchStatus
             THEN /\ rv' = o
                  /\ data' = IF o = "OK" THEN numbers[idx] ELSE 0
                  /\ pc' = AfterFetch(o)
                  /\ exc' = exc
             ELSE /\ UNCHANGED <<rv, data>>
                  /\ pc' = onRaise1(o)
                  /\ exc' = IF onRaise1(o) = "finally" THEN o ELSE exc
    /\ UNCHANGED <<mailconn, threshold, progress_cb, numbers, idx, count_msgs,
                   ret_code, last_error, result, dest_mbox, callbacks, clock,
                   runs, proactiveAt>>
    /\ UNCHANGED xvars

\* line 415: self._reconnect(0, folder) in the abort handler
AbortReconnect ==
    /\ pc = "abortReconnect"
    /\ \E go \in LogoutOutcomes, lo \in LoginOutcomes, so \in SelectOutcomes :
          /\ mailconn' = reconnectConn(0, go, lo, so)
          /\ trail' = reconnectTrail(trail, 0, "abort", WaitDefault, go, lo, so)
          /\ exc' = reconnectExc(0, go, lo, so)
          /\ pc' = IF reconnectExc(0, go, lo, so) = "none" THEN "fetch2" ELSE "finally"
    /\ UNCHANGED <<threshold, progress_cb, numbers, idx, count_msgs, rv, data,
                   ret_code, last_error, result, dest_mbox, callbacks, clock,
                   runs, proactiveAt, firstTryOK>>
    /\ UNCHANGED xvars

\* line 416: the fetch retried in the abort handler; whatever it raises
\* leaves _fetch_mail
Fetch2 ==
    /\ pc = "fetch2"
    /\ \E fo \in FetchOutcomes :
          LET o == fetchOutcome(mailconn, fo) IN
          /\ trail' = Append(trail, Fet(numbers[idx], mailconn, o))
          /\ IF o \in FetchStatus
             THEN /\ rv' = o
                  /\ data' = IF o = "OK" THEN numbers[idx] ELSE 0
                  /\ pc' = AfterFetch(o)
                  /\ exc' = exc
             ELSE /\ UNCHANGED <<rv, data>>
                  /\ pc' = onRaise2(o)
                  /\ exc' = IF onRaise2(o) = "finally" THEN o ELSE exc
    /\ UNCHANGED <<mailconn, threshold, progress_cb, numbers, idx, count_msgs,
                   ret_code, last_error, result, dest_mbox, callbacks, clock,
                   runs, proactiveAt, firstTryOK>>
    /\ UNCHANGED xvars

\* line 425: self._reconnect(0, folder, wait_seconds=600) after a NO
NoReconnect ==
    /\ pc = "noReconnect"
    /\ \E go \in LogoutOutcomes, lo \in LoginOutcomes, so \in SelectOutcomes :
          /\ mailconn' = reconnectConn(0, go, lo, so)
          /\ trail' = reconnectTrail(trail, 0, "no", WaitNo, go, lo, so)
          /\ exc' = reconnectExc(0, go, lo, so)
          /\ pc' = IF reconnectExc(0, go, lo, so) = "none" THEN "fetch3" ELSE "finally"
    /\ UNCHANGED <<threshold, progress_cb, numbers, idx, count_msgs, rv, data,
                   ret_code, last_error, result, dest_mbox, callbacks, clock,
                   runs, proactiveAt, firstTryOK>>
    /\ UNCHANGED xvars

\* line 426: the fetch retried after a NO; its status is returned as it is
Fetch3 ==
    /\ pc = "fetch3"
    /\ \E fo \in FetchOutcomes :
          LET o == fetchOutcome(mailconn, fo) IN
          /\ trail' = Append(trail, Fet(numbers[idx], mailconn, o))
          /\ IF o \in FetchStatus
             THEN /\ rv' = o
                  /\ data' = IF o = "OK" THEN numbers[idx] ELSE 0
                  /\ pc' = "dispatch"
                  /\ exc' = exc
             ELSE /\ UNCHANGED <<rv, data>>
                  /\ pc' = "finally"
                  /\ exc' = o
    /\ UNCHANGED <<mailconn, threshold, progress_cb, numbers, idx, count_msgs,
                   ret_code, last_error, result, dest_mbox, callbacks, clock,
                   runs, proactiveAt, firstTryOK>>
    /\ UNCHANGED xvars

\* a loop that skips on every status that is not OK
Branch_SkipAll(r) == IF r # "OK" THEN "skip" ELSE "append"

\* lines 483-510: what the loop does with the status _fetch_mail returned
Branch(r) == IF r = "NO" THEN "skip" ELSE IF r # "OK" THEN "abort" ELSE "append"

\* lines 483-496: the message is unavailable: reconnect, record the skip,
\* flush, warn, continue
SkipMail ==
    /\ pc = "dispatch"
    /\ Branch(rv) = "skip"
    /\ \E go \in LogoutOutcomes, lo \in LoginOutcomes, so \in SelectOutcomes :
          /\ mailconn' = reconnectConn(0, go, lo, so)
          /\ trail' = reconnectTrail(trail, 0, "skip", WaitSkip, go, lo, so)
          /\ exc' = reconnectExc(0, go, lo, so)
          /\ IF reconnectExc(0, go, lo, so) = "none"
             THEN /\ result' = add_skip_mail(result, numbers[idx])
                  /\ dest_mbox' = FlushMbox(dest_mbox)
                  /\ callbacks' = Report(callbacks, "warning", count_msgs,
                                         Len(numbers), "SKIP")
                  /\ idx' = idx + 1
                  /\ pc' = "loop"
             ELSE /\ UNCHANGED <<result, dest_mbox, callbacks, idx>>
                  /\ pc' = "finally"
    /\ UNCHANGED <<threshold, progress_cb, numbers, count_msgs, rv, data,
                   ret_code, last_error, clock, runs, proactiveAt, firstTryOK>>
    /\ UNCHANGED xvars

\* lines 498-510: a status that is neither OK nor NO: _set_error and return
AbortOnStatus ==
    /\ pc = "dispatch"
    /\ Branch(rv) = "abort"
    /\ ret_code' = FALSE
    /\ last_error' = "folder current return"
    /\ callbacks' = Report(callbacks, "error", count_msgs + 1, Len(numbers),
                           "folder current return")
    /\ exc' = "return"
    /\ pc' = "finally"
    /\ UNCHANGED <<mailconn, threshold, progress_cb, numbers, idx, count_msgs,
                   rv, data, result, dest_mbox, clock, runs, trail,
                   proactiveAt, firstTryOK>>
    /\ UNCHANGED xvars

\* lines 511-523: the message is appended, flush every 20, running every 5
AppendMail ==
    /\ pc = "dispatch"
    /\ Branch(rv) = "append"
    /\ dest_mbox' = AddMbox(dest_mbox, data, count_msgs + 1)
    /\ count_msgs' = count_msgs + 1
    /\ callbacks' = IF (count_msgs + 1) % ProgressEvery = 0
                    THEN Report(callbacks, "running", count_msgs + 1,
                                Len(numbers), "folder")
                    ELSE callbacks
    /\ idx' = idx + 1
    /\ pc' = "loop"
    /\ UNCHANGED <<mailconn, threshold, progress_cb, numbers, rv, data, exc,
                   ret_code, last_error, result, clock, runs, trail,
                   proactiveAt, firstTryOK>>
    /\ UNCHANGED xvars

\* lines 524-531: the finally clause: the container is closed, then the
\* folder is closed when a connection is held
Finally ==
    /\ pc = "finally"
    /\ dest_mbox' = CloseMbox(dest_mbox)
    /\ mailconn' = IF mailconn # "Disconnected" THEN close(mailconn) ELSE mailconn
    /\ pc' = IF exc = "none" THEN "end"
             ELSE IF exc = "return" THEN "returned" ELSE "except"
    /\ UNCHANGED <<threshold, progress_cb, numbers, idx, count_msgs, rv, data,
                   exc, ret_code, last_error, result, callbacks, clock, runs,
                   trail, proactiveAt, firstTryOK>>
    /\ UNCHANGED xvars

\* lines 532-536: self.result.end(count_msgs, max_msgs), complete, success
End ==
    /\ pc = "end"
    /\ result' = end(result, count_msgs, Len(numbers), clock)
    /\ clock' = clock + 1
    /\ callbacks' = Report(callbacks, "complete", count_msgs, Len(numbers), "folder")
    /\ ret_code' = TRUE
    /\ last_error' = ""
    /\ pc' = "returned"
    /\ UNCHANGED <<mailconn, threshold, progress_cb, numbers, idx, count_msgs,
                   rv, data, exc, dest_mbox, runs, trail, proactiveAt,
                   firstTryOK>>
    /\ UNCHANGED xvars

\* lines 537-553: the except clauses, each calls _set_error(msg, 0, 0); an
\* exception no clause names leaves get_mails_mbox
Except ==
    /\ pc = "except"
    /\ IF Caught(exc)
       THEN /\ ret_code' = FALSE
            /\ last_error' = ErrMsg(exc)
            /\ callbacks' = Report(callbacks, "error", 0, 0, ErrMsg(exc))
            /\ pc' = "returned"
       ELSE /\ UNCHANGED <<ret_code, last_error, callbacks>>
            /\ pc' = "raised"
    /\ UNCHANGED <<mailconn, threshold, progress_cb, numbers, idx, count_msgs,
                   rv, data, exc, result, dest_mbox, clock, runs, trail,
                   proactiveAt, firstTryOK>>
    /\ UNCHANGED xvars

\* ImapDownload.logout called by the owner between two runs
Logout ==
    /\ Resting
    /\ mailconn # "Disconnected"
    /\ \E go \in LogoutOutcomes : mailconn' = logout(mailconn, go)
    /\ UNCHANGED <<pc, threshold, progress_cb, numbers, idx, count_msgs, rv,
                   data, exc, ret_code, last_error, result, dest_mbox,
                   callbacks, clock, runs, trail, proactiveAt, firstTryOK>>
    /\ UNCHANGED xvars

Next ==
    \/ Begin
    \/ Login
    \/ Select
    \/ Search
    \/ Open
    \/ LoopExit
    \/ Proactive
    \/ Fetch1
    \/ AbortReconnect
    \/ Fetch2
    \/ NoReconnect
    \/ Fetch3
    \/ SkipMail
    \/ AbortOnStatus
    \/ AppendMail
    \/ Finally
    \/ End
    \/ Except
    \/ Logout

Spec == Init /\ [][Next]_vars

\* the steps of a run in progress: the interpreter executes the next statement
\* of get_mails_mbox; starting a run and logging out between runs are the
\* caller's decisions
RunStep ==
    \/ Login \/ Select \/ Search \/ Open \/ LoopExit \/ Proactive \/ Fetch1
    \/ AbortReconnect \/ Fetch2 \/ NoReconnect \/ Fetch3 \/ SkipMail
    \/ AbortOnStatus \/ AppendMail \/ Finally \/ End \/ Except

\* the retrieval run with a run in progress always taking its next step
SpecLive == Spec /\ WF_vars(RunStep)


(* ------------------------------- mutf7 --------------------------------- *)
\* A text is a sequence of code points; a value is a text with its Python
\* type (str or bytes), or the exception raised in its place.
Amp == 38
Dash == 45
Comma == 44
Slash == 47
Plus == 43
Equals == 61
Backslash == 92
Newline == 10
LetterA == 97
EAcute == 233

Str(s) == [raised |-> "none", t |-> "str", s |-> s]
Bytes(s) == [raised |-> "none", t |-> "bytes", s |-> s]
Err(e) == [raised |-> e, t |-> "none", s |-> << >>]

\* a + b and a += b of Python: str and bytes do not concatenate
iadd(a, b) ==
    IF a.raised # "none" THEN a
    ELSE IF b.raised # "none" THEN b
    ELSE IF a.t # b.t THEN Err("TypeError")
    ELSE [raised |-> "none", t |-> a.t, s |-> a.s \o b.s]

\* mutf7.py line 27: ascii_codes = set(range(0x20, 0x7F))
ascii_codes == 32..126

\* length of the longest prefix of text inside / outside ascii_codes
RECURSIVE AsciiRun(_)
AsciiRun(text) ==
    IF text = << >> \/ text[1] \notin ascii_codes THEN 0
    ELSE 1 + AsciiRun(Tail(text))

RECURSIVE NonAsciiRun(_)
NonAsciiRun(text) ==
    IF text = << >> \/ text[1] \in ascii_codes THEN 0
    ELSE 1 + NonAsciiRun(Tail(text))

\* __get_ascii: text[:pos].encode("ascii"), a bytes object
get_ascii(text) == Bytes(SubSeq(text, 1, AsciiRun(text)))

\* __remove_ascii: text[pos:]
remove_ascii(text) == SubSeq(text, AsciiRun(text) + 1, Len(text))

\* __get_nonascii: text[:pos], a str
get_nonascii(text) == Str(SubSeq(text, 1, NonAsciiRun(text)))

\* __remove_nonascii: text[pos:]
remove_nonascii(text) == SubSeq(text, NonAsciiRun(text) + 1, Len(text))

\* str.encode("utf-16be"): two bytes for a code point of the basic plane, a
\* surrogate pair above it, UnicodeEncodeError for a lone surrogate
RECURSIVE utf16be(_)
utf16be(s) ==
    IF s = << >> THEN << >>
    ELSE LET c == s[1] IN
         IF c < 65536
         THEN <<c \div 256, c % 256>> \o utf16be(Tail(s))
         ELSE LET hi == 55296 + ((c - 65536) \div 1024)
                  lo == 56320 + ((c - 65536) % 1024)
              IN  <<hi \div 256, hi % 256, lo \div 256, lo % 256>>
                      \o utf16be(Tail(s))

HasSurrogate(s) == \E i \in 1..Len(s) : s[i] \in 55296..57343

\* the base64 alphabet: the character of a 6-bit value
B64Char(v) ==
    IF v < 26 THEN 65 + v
    ELSE IF v < 52 THEN 97 + (v - 26)
    ELSE IF v < 62 THEN 48 + (v - 52)
    ELSE IF v = 62 THEN Plus ELSE Slash

\* base64.b64encode: 3 bytes give 4 characters, the rest is padded with "="
RECURSIVE b64encode(_)
b64encode(b) ==
    IF b = << >> THEN << >>
    ELSE IF Len(b) = 1
    THEN <<B64Char(b[1] \div 4), B64Char((b[1] % 4) * 16), Equals, Equals>>
    ELSE IF Len(b) = 2
    THEN <<B64Char(b[1] \div 4), B64Char((b[1] % 4) * 16 + b[2] \div 16),
           B64Char((b[2] % 16) * 4), Equals>>
    ELSE <<B64Char(b[1] \div 4), B64Char((b[1] % 4) * 16 + b[2] \div 16),
           B64Char((b[2] % 16) * 4 + b[3] \div 64), B64Char(b[3] % 64)>>
             \o b64encode(SubSeq(b, 4, Len(b)))

\* s without its trailing characters c
RECURSIVE StripRight(_, _)
StripRight(s, c) ==
    IF s # << >> /\ s[Len(s)] = c THEN StripRight(SubSeq(s, 1, Len(s) - 1), c)
    ELSE s

\* v.rstrip(chars) and v.replace(old, new) of Python: the arguments have the
\* type of v, else TypeError
rstrip(v, argtype, c) ==
    IF v.raised # "none" THEN v
    ELSE IF v.t # argtype THEN Err("TypeError")
    ELSE [v EXCEPT !.s = StripRight(v.s, c)]

replaceChar(v, argtype, old, new) ==
    IF v.raised # "none" THEN v
    ELSE IF v.t # argtype THEN Err("TypeError")
    ELSE [v EXCEPT !.s = [i \in 1..Len(v.s) |->
                             IF v.s[i] = old THEN new ELSE v.s[i]]]

\* __encode_modified_utf7, lines 66-71: b64encode returns bytes, and the
\* arguments of rstrip, replace and + are str
encode_modified_utf7(text) ==
    LET u == IF HasSurrogate(text.s) THEN Err("UnicodeEncodeError")
             ELSE Bytes(b64encode(utf16be(text.s)))
        r1 == rstrip(u, "str", Equals)
        r2 == replaceChar(r1, "str", Slash, Comma)
    IN  iadd(iadd(Str(<<Amp>>), r2), Str(<<Dash>>))

\* text.replace("&", "&-")
RECURSIVE EscapeAmp(_)
EscapeAmp(s) ==
    IF s = << >> THEN << >>
    ELSE IF s[1] = Amp THEN <<Amp, Dash>> \o EscapeAmp(Tail(s))
    ELSE <<s[1]>> \o EscapeAmp(Tail(s))

\* the while loop of encode_mutf7, lines 78-83
RECURSIVE encode_loop(_, _)
encode_loop(res, text) ==
    IF res.raised # "none" \/ Len(text) = 0 THEN res
    ELSE LET r1 == iadd(res, get_ascii(text))
             t1 == remove_ascii(text)
         IN  IF r1.raised # "none" \/ Len(t1) = 0 THEN r1
             ELSE encode_loop(iadd(r1, encode_modified_utf7(get_nonascii(t1))),
                              remove_nonascii(t1))

\* encode_mutf7, lines 74-84
encode_mutf7(text) == encode_loop(Str(<< >>), EscapeAmp(text))


\* the 6-bit value of a character of the base64 alphabet, -1 for another one
B64Index(c) ==
    IF c \in 65..90 THEN c - 65
    ELSE IF c \in 97..122 THEN c - 97 + 26
    ELSE IF c \in 48..57 THEN c - 48 + 52
    ELSE IF c = Plus THEN 62
    ELSE IF c = Slash THEN 63
    ELSE -1

\* binascii.a2b_base64 in its default (non-strict) mode: characters outside
\* the alphabet are skipped, a complete padding ends the data, and data
\* that stops inside a quantum is an error; qp is the position in the
\* quantum, left the bits not yet written
RECURSIVE a2b_base64(_, _, _, _, _, _)
a2b_base64(s, i, qp, pads, left, out) ==
    IF i > Len(s)
    THEN (IF qp = 0 THEN Bytes(out) ELSE Err("binascii.Error"))
    ELSE IF s[i] = Equals
    THEN (IF qp >= 2 /\ qp + pads + 1 >= 4 THEN Bytes(out)
          ELSE a2b_base64(s, i + 1, qp, IF qp >= 2 THEN pads + 1 ELSE pads,
                          left, out))
    ELSE IF B64Index(s[i]) = -1
    THEN a2b_base64(s, i + 1, qp, pads, left, out)
    ELSE LET v == B64Index(s[i]) IN
         IF qp = 0 THEN a2b_base64(s, i + 1, 1, 0, v, out)
         ELSE IF qp = 1
         THEN a2b_base64(s, i + 1, 2, 0, v % 16,
                         Append(out, left * 4 + v \div 16))
         ELSE IF qp = 2
         THEN a2b_base64(s, i + 1, 3, 0, v % 4,
                         Append(out, left * 16 + v \div 4))
         ELSE a2b_base64(s, i + 1, 0, 0, 0, Append(out, left * 64 + v))

\* base64.b64decode(str): the string must be ASCII (ValueError otherwise)
b64decode(s) ==
    IF \E i \in 1..Len(s) : s[i] > 127 THEN Err("ValueError")
    ELSE a2b_base64(s, 1, 0, 0, 0, << >>)

\* bytes.decode("utf-16be"): UnicodeDecodeError for an odd length or a
\* surrogate that is not half of a pair
RECURSIVE utf16be_decode(_, _)
utf16be_decode(b, out) ==
    IF b = << >> THEN Str(out)
    ELSE IF Len(b) = 1 THEN Err("UnicodeDecodeError")
    ELSE LET u == b[1] * 256 + b[2] IN
         IF u \notin 55296..57343
         THEN utf16be_decode(SubSeq(b, 3, Len(b)), Append(out, u))
         ELSE IF u >= 56320 \/ Len(b) < 4 THEN Err("UnicodeDecodeError")
         ELSE LET w == b[3] * 256 + b[4] IN
              IF w \notin 56320..57343 THEN Err("UnicodeDecodeError")
              ELSE utf16be_decode(SubSeq(b, 5, Len(b)),
                      Append(out, 65536 + (u - 55296) * 1024 + (w - 56320)))

\* "while len(text_b64) % 4 != 0: text_b64 += '='"
RECURSIVE PadTo4(_)
PadTo4(s) == IF Len(s) % 4 = 0 THEN s ELSE PadTo4(Append(s, Equals))

\* __decode_modified_utf7, lines 99-110: the text of one section "&...-"
decode_modified_utf7(text) ==
    IF text = <<Amp, Dash>> THEN Str(<<Amp>>)
    ELSE LET mb64 == SubSeq(text, 2, Len(text) - 1)
             b64 == [i \in 1..Len(mb64) |->
                        IF mb64[i] = Comma THEN Slash ELSE mb64[i]]
             u16 == b64decode(PadTo4(b64))
         IN  IF u16.raised # "none" THEN u16
             ELSE utf16be_decode(u16.s, << >>)

\* "." of a pattern matches every character but the newline; "$" matches at
\* the end of the text and before a newline that ends it
DotRun(t, a, b) == \A j \in a..b : t[j] # Newline
AtEnd(t, k) == k = Len(t) \/ (k = Len(t) - 1 /\ t[Len(t)] = Newline)
\* ".*$" matches from the position after the first i characters
TailMatches(t, i) == \E k \in i..Len(t) : DotRun(t, i + 1, k) /\ AtEnd(t, k)

IsMB64(c) == (B64Index(c) >= 0 /\ c # Slash) \/ c = Comma

\* line 88: re.match(r"^.*[^\040-\176].*$", text)
BadCharacter(t) ==
    \E i \in 1..Len(t) :
        /\ t[i] \notin ascii_codes
        /\ DotRun(t, 1, i - 1)
        /\ TailMatches(t, i)

\* line 90: re.match(r"^.*&[^-]*(&.*$|$)", text)
NotClosed(t) ==
    \E i \in 1..Len(t) :
        /\ t[i] = Amp
        /\ DotRun(t, 1, i - 1)
        /\ \E k \in i..Len(t) :
              /\ \A j \in (i + 1)..k : t[j] # Dash
              /\ \/ AtEnd(t, k)
                 \/ (k < Len(t) /\ t[k + 1] = Amp /\ TailMatches(t, k + 1))

\* line 92: re.match(r"^.*&[A-Za-z0-9+,]*[^\-A-Za-z0-9+,].*$", text)
BadBase64(t) ==
    \E i \in 1..Len(t) :
        /\ t[i] = Amp
        /\ DotRun(t, 1, i - 1)
        /\ \E k \in i..(Len(t) - 1) :
              /\ \A j \in (i + 1)..k : IsMB64(t[j])
              /\ t[k + 1] # Dash
              /\ ~IsMB64(t[k + 1])
              /\ TailMatches(t, k + 1)

\* line 94: re.match(r"^.*&[^-&]+-&[^-&]+-.*$", text)
NullShift(t) ==
    \E i \in 1..Len(t) :
        /\ t[i] = Amp
        /\ DotRun(t, 1, i - 1)
        /\ \E k \in (i + 1)..Len(t), m \in (i + 4)..Len(t) :
              /\ \A j \in (i + 1)..k : t[j] \notin {Dash, Amp}
              /\ k + 2 <= Len(t)
              /\ t[k + 1] = Dash
              /\ t[k + 2] = Amp
              /\ m >= k + 3
              /\ \A j \in (k + 3)..m : t[j] \notin {Dash, Amp}
              /\ m + 1 <= Len(t)
              /\ t[m + 1] = Dash
              /\ TailMatches(t, m + 1)

\* __check_utf7_format, lines 87-96: the exception it raises, or "none"
check_utf7_format(t) ==
    IF BadCharacter(t) \/ NotClosed(t) \/ BadBase64(t) \/ NullShift(t)
    THEN "InvalidUTF7FormatException" ELSE "none"

\* rxp = "&[^&-]*-": t[i..k] is a match of it
IsShift(t, i, k) ==
    /\ i < k
    /\ t[i] = Amp
    /\ t[k] = Dash
    /\ \A j \in (i + 1)..(k - 1) : t[j] \notin {Amp, Dash}

\* rxp.search(text): the leftmost match, <<0, 0>> when there is none
search_shift(t) ==
    LET M == {ik \in (1..Len(t)) \X (1..Len(t)) : IsShift(t, ik[1], ik[2])}
    IN  IF M = {} THEN <<0, 0>>
        ELSE CHOOSE ik \in M : \A o \in M : ik[1] <= o[1]

\* the loop of decode_mutf7, lines 117-122: the first match in the current
\* text is replaced by its decoding, and the search starts again on the
\* result; rxp.sub reads a backslash of the replacement as an escape
RECURSIVE decode_loop(_)
decode_loop(t) ==
    LET ik == search_shift(t) IN
    IF ik = <<0, 0>> THEN Str(t)
    ELSE LET d == decode_modified_utf7(SubSeq(t, ik[1], ik[2])) IN
         IF d.raised # "none" THEN d
         ELSE IF \E j \in 1..Len(d.s) : d.s[j] = Backslash THEN Err("re.error")
         ELSE decode_loop(SubSeq(t, 1, ik[1] - 1) \o d.s
                              \o SubSeq(t, ik[2] + 1, Len(t)))

\* decode_mutf7, lines 113-124
decode_mutf7(text) ==
    IF check_utf7_format(text) # "none" THEN Err(check_utf7_format(text))
    ELSE decode_loop(text)


(* ------------------------------ list_folders --------------------------- *)
\* A flag of a listing line is a backslash followed by a name, written here
\* as the stem of the name and what follows the stem (\Sent is Sent + "",
\* \Sentinel is Sent + "inel"); no stem used here begins with another one.
Flag(stem, ext) == [stem |-> stem, ext |-> ext]

\* _test_flags, line 167
ignore_flags == {"All", "Archive", "Drafts", "Flagged", "Junk", "Sent", "Trash"}

\* the special-use attributes a claim names: the flag is one of ignore_flags
SpecialUse(f) == f.stem \in ignore_flags /\ f.ext = ""

\* line 169: f"\\{ignore}" in flags, a substring test on the text of the
\* flags: the backslash and the name are found where a flag begins with it
Mentions(flags, ignore) == \E i \in 1..Len(flags) : flags[i].stem = ignore

\* _test_flags, lines 162-171
test_flags(flags) == \E ignore \in ignore_flags : Mentions(flags, ignore)

\* the wire names of the listing: "a", "&AOk-" (an e with acute accent),
\* "&" (a shift that is not closed), "&-a-" (accepted by the format check,
\* not decodable)
WireNames == {<<LetterA>>, <<Amp, 65, 79, 107, Dash>>, <<Amp>>,
              <<Amp, Dash, LetterA, Dash>>}

\* the flag lists of the listing; the empty one is the line "() ..."
FlagLists == {<< >>,
              <<Flag("HasNoChildren", "")>>,
              <<Flag("HasNoChildren", ""), Flag("Trash", "")>>,
              <<Flag("HasNoChildren", ""), Flag("Sent", "inel")>>}

\* a line of the LIST response
Lines == [flags : FlagLists, name : WireNames]

\* _parse_folder, lines 143-160: the pattern \((.+)\) ([^ ]+) (.*) wants at
\* least one character between the parentheses; without a match the
\* result is ("", "/", "")
parse_folder(ln) ==
    IF ln.flags = << >> THEN [flags |-> << >>, name |-> << >>]
    ELSE [flags |-> ln.flags, name |-> ln.name]

\* the exception classes: binascii.Error and UnicodeDecodeError are
\* ValueErrors, abort is an IMAP4.error
IsValueError(e) == e \in {"ValueError", "binascii.Error", "UnicodeDecodeError"}
IsImapError(e) == e \in {"error", "abort", "authfailed"}

\* the except clauses of list_folders, lines 216-254: ValueError,
\* socket.gaierror, imaplib.IMAP4.error
CaughtList(e) == IsValueError(e) \/ e = "gaierror" \/ IsImapError(e)

\* the message of each except clause of list_folders
ErrMsgList(e) ==
    IF e = "gaierror" THEN "Erreur de connexion"
    ELSE IF e = "authfailed" THEN "Erreur de connection"
    ELSE "Erreur de recuperation"

\* list(): a status, or a raised protocol error / abort / timeout
ListOutcomes == {"OK", "NO", "error", "abort", "TimeoutError"}

\* outcome of the LIST command on a session in state conn
listOutcome(conn, o) ==
    IF conn \in {"Authenticated", "FolderSelected"} THEN o ELSE "error"

\* at most MaxLines lines in a listing, at most MaxCount messages in a folder
MaxLines == 2
MaxCount == 2

\* what list_folders did with a line: filtered by its flags, probed with
\* which answer, kept in self.folders
Done(ln, filtered, probe, cnt, kept) ==
    [flags |-> ln.flags, name |-> ln.name, filtered |-> filtered,
     probe |-> probe, count |-> cnt, kept |-> kept]

\* ImapFolder.__init__(name) and the count setter
ImapFolder(wire, shown, cnt) ==
    [name_in_mutf7 |-> wire, name |-> shown, count |-> cnt]

\* lines 175-178: list_folders(with_counts, progress_cb) is called
ListBegin ==
    /\ Resting
    /\ runs < MaxRuns
    /\ runs' = runs + 1
    /\ \E wc \in BOOLEAN : lf' = [NoList EXCEPT !.with_counts = wc]
    /\ \E cb \in BOOLEAN : progress_cb' = cb
    /\ last_error' = "None"
    /\ ret_code' = TRUE
    /\ exc' = "none"
    /\ callbacks' = << >>
    /\ pc' = "lfLogin"
    /\ UNCHANGED <<mailconn, threshold, numbers, idx, count_msgs, rv, data,
                   result, dest_mbox, clock, trail, proactiveAt, firstTryOK>>
    /\ UNCHANGED <<sess, codec, manifest, bag, gui, duo>>

\* line 180: self.login()
ListLogin ==
    /\ pc = "lfLogin"
    /\ \E lo \in LoginOutcomes :
          /\ mailconn' = login(mailconn, lo)
          /\ exc' = loginExc(mailconn, lo)
          /\ pc' = IF loginExc(mailconn, lo) = "none" THEN "lfList" ELSE "lfExcept"
    /\ UNCHANGED <<threshold, progress_cb, numbers, idx, count_msgs, rv, data,
                   ret_code, last_error, result, dest_mbox, callbacks, clock,
                   runs, trail, proactiveAt, firstTryOK>>
    /\ UNCHANGED xvars

\* lines 181-190: the LIST command; a status that is not OK sets the error
\* fields and returns
ListCmd ==
    /\ pc = "lfList"
    /\ \E lo \in ListOutcomes, n \in 0..MaxLines :
          LET o == listOutcome(mailconn, lo) IN
          IF o = "OK"
          THEN /\ lf' = [lf EXCEPT !.max_folders = n]
               /\ callbacks' = Report(callbacks, "start", 0, n, "")
               /\ pc' = "lfLine"
               /\ UNCHANGED <<ret_code, last_error, exc>>
          ELSE IF o = "NO"
          THEN /\ ret_code' = FALSE
               /\ last_error' = "NO"
               /\ exc' = "return"
               /\ pc' = "returned"
               /\ UNCHANGED <<lf, callbacks>>
          ELSE /\ exc' = o
               /\ pc' = "lfExcept"
               /\ UNCHANGED <<lf, callbacks, ret_code, last_error>>
    /\ UNCHANGED <<mailconn, threshold, progress_cb, numbers, idx, count_msgs,
                   rv, data, result, dest_mbox, clock, runs, trail,
                   proactiveAt, firstTryOK>>
    /\ UNCHANGED <<sess, codec, manifest, bag, gui, duo>>

\* lines 199-208: the folder is appended, with a running callback at every
\* 5th folder
appendFolder(l, ln, probe, cnt, fo) ==
    [l EXCEPT !.data = Append(@, Done(ln, FALSE, probe, cnt, TRUE)),
              !.folders = Append(@, fo),
              !.msgs_count = IF l.with_counts THEN @ + cnt ELSE @,
              !.f_count = @ + 1]

\* lines 191-208 without counts, and up to the probe with counts: the line is
\* parsed, skipped when its flags are special, and the folder object is
\* built from its name
ListLine ==
    /\ pc = "lfLine"
    /\ Len(lf.data) < lf.max_folders
    /\ \E ln \in Lines :
          LET p == parse_folder(ln)
              d == decode_mutf7(p.name)
          IN
          IF test_flags(p.flags)
          THEN /\ lf' = [lf EXCEPT !.data = Append(@, Done(ln, TRUE, "none", -1, FALSE))]
               /\ UNCHANGED <<pc, exc, callbacks>>
          ELSE IF d.raised # "none"
          THEN /\ exc' = d.raised
               /\ pc' = "lfExcept"
               /\ lf' = [lf EXCEPT !.data = Append(@, Done(ln, FALSE, "none", -1, FALSE))]
               /\ UNCHANGED callbacks
          ELSE IF lf.with_counts
          THEN /\ pc' = "lfProbe"
               /\ lf' = [lf EXCEPT !.data = Append(@, Done(ln, FALSE, "none", -1, FALSE))]
               /\ UNCHANGED <<exc, callbacks>>
          ELSE /\ lf' = appendFolder(lf, ln, "none", -1, ImapFolder(p.name, d.s, -1))
               /\ callbacks' = IF (lf.f_count + 1) % ProgressEvery = 0
                               THEN Report(callbacks, "running", lf.f_count + 1,
                                           lf.max_folders, "current")
                               ELSE callbacks
               /\ UNCHANGED <<pc, exc>>
    /\ UNCHANGED <<mailconn, threshold, progress_cb, numbers, idx, count_msgs,
                   rv, data, ret_code, last_error, result, dest_mbox, clock,
                   runs, trail, proactiveAt, firstTryOK>>
    /\ UNCHANGED <<sess, codec, manifest, bag, gui, duo>>

\* get_folder_count, lines 257-269: login() (a connection is held), select
\* read-only; a status that is not OK gives (0, message), else the count the
\* server reports
get_folder_count(so, c) == IF so = "OK" THEN c ELSE 0

\* lines 194-208 with counts: the probe of the folder of the current line;
\* a count of 0 skips the folder
ListProbe ==
    /\ pc = "lfProbe"
    /\ \E so \in SelectOutcomes, c \in 0..MaxCount :
          LET k == Len(lf.data)
              ln == lf.data[k]
              p == parse_folder(ln)
              mycount == get_folder_count(so, c)
          IN
          /\ mailconn' = select(mailconn, so)
          /\ IF selectExc(mailconn, so) # "none"
             THEN /\ exc' = selectExc(mailconn, so)
                  /\ pc' = "lfExcept"
                  /\ lf' = [lf EXCEPT !.data[k].probe = so]
                  /\ UNCHANGED callbacks
             ELSE IF mycount = 0
             THEN /\ lf' = [lf EXCEPT !.data[k].probe = so,
                                     !.data[k].count = IF so = "OK" THEN c ELSE -1]
                  /\ pc' = "lfLine"
                  /\ UNCHANGED <<exc, callbacks>>
             ELSE /\ lf' = appendFolder([lf EXCEPT !.data = SubSeq(@, 1, k - 1)],
                                        ln, so, c,
                                        ImapFolder(p.name, decode_mutf7(p.name).s,
                                                   mycount))
                  /\ callbacks' = IF (lf.f_count + 1) % ProgressEvery = 0
                                  THEN Report(callbacks, "running", lf.f_count + 1,
                                              lf.max_folders, "current")
                                  ELSE callbacks
                  /\ pc' = "lfLine"
                  /\ UNCHANGED exc
    /\ UNCHANGED <<threshold, progress_cb, numbers, idx, count_msgs, rv, data,
                   ret_code, last_error, result, dest_mbox, clock, runs, trail,
                   proactiveAt, firstTryOK>>
    /\ UNCHANGED <<sess, codec, manifest, bag, gui, duo>>

\* lines 209-215: the loop is over, the complete callback
ListComplete ==
    /\ pc = "lfLine"
    /\ Len(lf.data) = lf.max_folders
    /\ callbacks' = Report(callbacks, "complete", Len(lf.folders),
                           Len(lf.folders), "total msgs")
    /\ pc' = "returned"
    /\ UNCHANGED <<mailconn, threshold, progress_cb, numbers, idx, count_msgs,
                   rv, data, exc, ret_code, last_error, result, dest_mbox,
                   clock, runs, trail, proactiveAt, firstTryOK>>
    /\ UNCHANGED xvars

\* lines 216-254: the except clauses; an exception of another class leaves
\* list_folders
ListExcept ==
    /\ pc = "lfExcept"
    /\ IF CaughtList(exc)
       THEN /\ last_error' = ErrMsgList(exc)
            /\ ret_code' = FALSE
            /\ callbacks' = Report(callbacks, "error", 0, 0, ErrMsgList(exc))
            /\ pc' = "returned"
       ELSE /\ pc' = "raised"
            /\ UNCHANGED <<last_error, ret_code, callbacks>>
    /\ UNCHANGED <<mailconn, threshold, progress_cb, numbers, idx, count_msgs,
                   rv, data, exc, result, dest_mbox, clock, runs, trail,
                   proactiveAt, firstTryOK>>
    /\ UNCHANGED xvars

\* str.__lt__: the order of the code points, a proper prefix first
StrLt(s, t) ==
    \E k \in 0..Len(s) :
       /\ k <= Len(t)
       /\ \A j \in 1..k : s[j] = t[j]
       /\ IF k = Len(s) THEN k < Len(t)
          ELSE k < Len(t) /\ s[k + 1] < t[k + 1]

\* ImapFolder.__lt__, imap_folder.py lines 49-55
ImapFolder_lt(self, other) ==
    IF self.count # -1
    THEN self.count >= other.count
    ELSE StrLt(self.name, other.name)

\* sorted() on a list shorter than 64: the leading run is counted (and
\* reversed when strictly descending), the rest is inserted by binary search
RunLen(s, desc) ==
    CHOOSE m \in 2..Len(s) :
       /\ \A i \in 2..m : ImapFolder_lt(s[i], s[i - 1]) = desc
       /\ m = Len(s) \/ ImapFolder_lt(s[m + 1], s[m]) # desc

Reverse(s) == [i \in 1..Len(s) |-> s[Len(s) + 1 - i]]

RECURSIVE BinPos(_, _, _, _)
BinPos(s, pivot, l, r) ==
    IF l >= r THEN l
    ELSE LET p == l + ((r - l) \div 2) IN
         IF ImapFolder_lt(pivot, s[p]) THEN BinPos(s, pivot, l, p)
         ELSE BinPos(s, pivot, p + 1, r)

RECURSIVE binarysort(_, _)
binarysort(s, first) ==
    IF first > Len(s) THEN s
    ELSE LET l == BinPos(s, s[first], 1, first) IN
         binarysort(SubSeq(s, 1, l - 1) \o <<s[first]>> \o SubSeq(s, l, first - 1)
                       \o SubSeq(s, first + 1, Len(s)),
                    first + 1)

sorted(s) ==
    IF Len(s) < 2 THEN s
    ELSE LET desc == ImapFolder_lt(s[2], s[1])
             n == RunLen(s, desc)
             run == IF desc THEN Reverse(SubSeq(s, 1, n)) \o SubSeq(s, n + 1, Len(s))
                    ELSE s
         IN binarysort(run, n + 1)

\* sorted(download.folders), imap_download.py lines 652-655 (and the
\* complete phase of DonateGui.progress_folder, donate_gui.py lines 177-184)
ListSorted ==
    /\ pc = "returned"
    /\ ret_code
    /\ lf' = [lf EXCEPT !.sorted = sorted(lf.folders)]
    /\ pc' = "lfSorted"
    /\ UNCHANGED <<mailconn, threshold, progress_cb, numbers, idx, count_msgs,
                   rv, data, exc, ret_code, last_error, result, dest_mbox,
                   callbacks, clock, runs, trail, proactiveAt, firstTryOK>>
    /\ UNCHANGED <<sess, codec, manifest, bag, gui, duo>>

NextList ==
    \/ ListBegin
    \/ ListLogin
    \/ ListCmd
    \/ ListLine
    \/ ListProbe
    \/ ListComplete
    \/ ListExcept
    \/ ListSorted

SpecList == Init /\ [][NextList]_vars

(* ----------------------- calls of login() and logout() ----------------- *)
\* the owner of the object calls login() and logout() in any order, at most
\* MaxCalls times
MaxCalls == 4

\* login(): sess counts the connections opened (IMAP4_SSL(...)) and the
\* LOGIN commands sent, and keeps the identity of the connection held (0 for
\* None) and of the one returned
SessLogin ==
    /\ pc = "idle"
    /\ sess.calls < MaxCalls
    /\ \E lo \in LoginOutcomes :
          /\ mailconn' = login(mailconn, lo)
          /\ sess' = [calls |-> sess.calls + 1,
                      opened |-> IF Held(mailconn) THEN sess.opened
                                 ELSE sess.opened + 1,
                      auths |-> IF ~Held(mailconn) /\ lo \in {"ok", "authfailed"}
                                THEN sess.auths + 1 ELSE sess.auths,
                      handle |-> IF Held(mailconn) THEN sess.handle
                                 ELSE IF lo \in {"ok", "authfailed"}
                                 THEN sess.opened + 1 ELSE 0,
                      ret |-> IF Held(mailconn) THEN sess.handle
                              ELSE IF lo = "ok" THEN sess.opened + 1 ELSE 0,
                      raised |-> loginExc(mailconn, lo),
                      last |-> "login"]
    /\ UNCHANGED <<pc, threshold, progress_cb, numbers, idx, count_msgs, rv,
                   data, exc, ret_code, last_error, result, dest_mbox,
                   callbacks, clock, runs, trail, proactiveAt, firstTryOK>>
    /\ UNCHANGED <<lf, codec, manifest, bag, gui, duo>>

\* logout()
SessLogout ==
    /\ pc = "idle"
    /\ sess.calls < MaxCalls
    /\ \E go \in LogoutOutcomes :
          /\ mailconn' = logout(mailconn, go)
          /\ sess' = [sess EXCEPT !.calls = @ + 1,
                                  !.handle = IF Held(logout(mailconn, go))
                                             THEN @ ELSE 0,
                                  !.ret = 0,
                                  !.raised = logoutExc(mailconn, go),
                                  !.last = "logout"]
    /\ UNCHANGED <<pc, threshold, progress_cb, numbers, idx, count_msgs, rv,
                   data, exc, ret_code, last_error, result, dest_mbox,
                   callbacks, clock, runs, trail, proactiveAt, firstTryOK>>
    /\ UNCHANGED <<lf, codec, manifest, bag, gui, duo>>

NextSession ==
    \/ SessLogin
    \/ SessLogout

SpecSession == Init /\ [][NextSession]_vars

(* --------------------------- calls of the codec ------------------------ *)
\* the texts given to the codec: at most MaxText characters out of "&", "-",
\* a letter, a character outside ASCII and a control character (the newline)
MaxText == 5
CodecAlphabet == {Amp, Dash, LetterA, EAcute, Newline}

RECURSIVE TextsUpTo(_)
TextsUpTo(n) ==
    IF n = 0 THEN {<< >>}
    ELSE TextsUpTo(n - 1)
           \cup {Append(t, c) : t \in TextsUpTo(n - 1), c \in CodecAlphabet}

InitCodec ==
    /\ Constructed
    /\ gui = NewGui
    /\ duo = NoDuo
    /\ lf = NoList
    /\ sess = NoSess
    /\ \E t \in TextsUpTo(MaxText) : codec = [NoCodec EXCEPT !.text = t]
    /\ manifest = NoManifest
    /\ bag = NoBag

\* encode_mutf7(text)
CodecEncode ==
    /\ codec.op = "none"
    /\ codec' = [codec EXCEPT !.op = "encode",
                              !.raised = encode_mutf7(codec.text).raised,
                              !.out = encode_mutf7(codec.text).s]
    /\ UNCHANGED <<rvars, lf, sess, manifest, bag, gui, duo>>

\* decode_mutf7(text)
CodecDecode ==
    /\ codec.op = "none"
    /\ codec' = [codec EXCEPT !.op = "decode",
                              !.raised = decode_mutf7(codec.text).raised,
                              !.out = decode_mutf7(codec.text).s]
    /\ UNCHANGED <<rvars, lf, sess, manifest, bag, gui, duo>>

\* decode_mutf7 applied to what encode_mutf7 returned
CodecDecodeBack ==
    /\ codec.op = "encode"
    /\ codec.raised = "none"
    /\ codec' = [codec EXCEPT !.op = "roundtrip",
                              !.raised = decode_mutf7(codec.out).raised,
                              !.out = decode_mutf7(codec.out).s]
    /\ UNCHANGED <<rvars, lf, sess, manifest, bag, gui, duo>>

\* ImapFolder(text), imap_folder.py lines 17-21: the wire name is kept and
\* decoded; an exception of the decoder leaves the constructor
FolderNew ==
    /\ codec.op = "none"
    /\ LET d == decode_mutf7(codec.text) IN
       codec' = [codec EXCEPT !.op = "new",
                              !.raised = d.raised,
                              !.folder = IF d.raised = "none"
                                         THEN ImapFolder(codec.text, d.s, -1)
                                         ELSE @]
    /\ UNCHANGED <<rvars, lf, sess, manifest, bag, gui, duo>>

\* folder.name = text, imap_folder.py lines 28-32, on the folder built from
\* the same text (as main does, imap_download.py lines 667-668): _name is
\* assigned, then _name_in_mutf7 when the encoder returns
FolderSetName ==
    /\ codec.op = "new"
    /\ codec.raised = "none"
    /\ LET e == encode_mutf7(codec.text) IN
       codec' = [codec EXCEPT !.op = "setname",
                              !.raised = e.raised,
                              !.folder.name = codec.text,
                              !.folder.name_in_mutf7 =
                                   IF e.raised = "none" THEN e.s ELSE @]
    /\ UNCHANGED <<rvars, lf, sess, manifest, bag, gui, duo>>

NextCodec ==
    \/ FolderNew
    \/ FolderSetName
    \/ CodecEncode
    \/ CodecDecode
    \/ CodecDecodeBack

SpecCodec == InitCodec /\ [][NextCodec]_vars

(* ---------------------- a folder of more than 20 messages -------------- *)
\* the search answers the numbers 1..LongLen
LongLen == 21
LongPlan == [i \in 1..LongLen |-> i]

\* lines 463-474 with the plan 1..LongLen
SearchLong == SearchP({LongPlan})

\* the server is arbitrary for the first message and from the 20th appended
\* message on; in between every command succeeds
LongEnv ==
    (pc \in {"loop", "fetch1", "dispatch"} /\ idx > 1 /\ count_msgs < FlushEvery) =>
        /\ exc' = "none"
        /\ pc' \in {"loop", "fetch1", "dispatch"}
        /\ pc' = "fetch1" => mailconn' = "FolderSelected"
        /\ pc' = "dispatch" => rv' = "OK"

NextLong ==
    \/ Begin /\ LongEnv
    \/ Login /\ LongEnv
    \/ Select /\ LongEnv
    \/ SearchLong /\ LongEnv
    \/ Open /\ LongEnv
    \/ LoopExit /\ LongEnv
    \/ Proactive /\ LongEnv
    \/ Fetch1 /\ LongEnv
    \/ AbortReconnect /\ LongEnv
    \/ Fetch2 /\ LongEnv
    \/ NoReconnect /\ LongEnv
    \/ Fetch3 /\ LongEnv
    \/ SkipMail /\ LongEnv
    \/ AbortOnStatus /\ LongEnv
    \/ AppendMail /\ LongEnv
    \/ Finally /\ LongEnv
    \/ End /\ LongEnv
    \/ Except /\ LongEnv
    \/ Logout /\ LongEnv

(* ------------------------------ the manifest --------------------------- *)
\* DEFAULT_TIMEOUT, DEFAULT_THRESHOLD, download_context.py lines 12-13, and
\* the default port of ImapServer, imap_server.py line 10
DEFAULT_TIMEOUT == 10
DEFAULT_THRESHOLD == 2000
DEFAULT_PORT == 993

\* os.path.basename of a path given as its components
basename(path) == path[Len(path)]

\* one key of a dictionary, present or not
Key(present, k, v) == IF present THEN k :> v ELSE << >>

\* ImapServer.to_dict / from_dict, imap_server.py lines 35-47
ImapServer_to_dict(sv) == [name |-> sv.name, host |-> sv.host, port |-> sv.port]
ImapServer_from_dict(d) ==
    IF "name" \in DOMAIN d /\ "host" \in DOMAIN d
    THEN IF "port" \in DOMAIN d
         THEN [name |-> d.name, host |-> d.host, port |-> d.port]
         ELSE [name |-> d.name, host |-> d.host, port |-> DEFAULT_PORT]
    ELSE d

\* ImapAccount.to_dict, imap_account.py lines 32-34: the name alone
ImapAccount_to_dict(a) == [name |-> a.name]

\* ImapFolder.to_dict, imap_folder.py lines 63-68
ImapFolder_to_dict(f) ==
    IF f.count # -1 THEN [name |-> f.name, count |-> f.count]
    ELSE [name |-> f.name]

\* DownloadContext.to_dict, download_context.py lines 117-135;
\* os.path.basename(None) raises TypeError
DownloadContext_to_dict(c) ==
    IF c.mbox = None THEN Raise("TypeError")
    ELSE Returned("dict",
           ("agent" :> (IF c.agent = None THEN "" ELSE c.agent[1]))
           @@ Key(c.server # None, "server", ImapServer_to_dict(c.server[1]))
           @@ Key(c.account # None, "account", ImapAccount_to_dict(c.account[1]))
           @@ Key(c.folder # None, "folder", ImapFolder_to_dict(c.folder[1]))
           @@ Key(c.year_since # None \/ c.year_before # None, "scope",
                  Key(c.year_since # None, "year_begin", c.year_since[1])
                  @@ Key(c.year_before # None, "year_end", c.year_before[1]))
           @@ ("mbox" :> basename(c.mbox[1]))
           @@ ("timeout" :> c.timeout)
           @@ ("threshold" :> c.threshold))

\* DownloadContext.from_dict, download_context.py lines 137-161: ImapAccount
\* and ImapFolder define no from_dict, the attribute lookup raises
DownloadContext_from_dict(d) ==
    IF "mbox" \notin DOMAIN d THEN Returned("dict", d)
    ELSE IF "account" \in DOMAIN d THEN Raise("AttributeError")
    ELSE IF "folder" \in DOMAIN d THEN Raise("AttributeError")
    ELSE Returned("DownloadContext",
           [agent |-> Some(IF "agent" \in DOMAIN d THEN d.agent ELSE ""),
            server |-> IF "server" \in DOMAIN d
                       THEN Some(ImapServer_from_dict(d.server)) ELSE None,
            account |-> None,
            folder |-> None,
            year_since |-> IF "scope" \in DOMAIN d /\ "year_begin" \in DOMAIN d.scope
                           THEN Some(d.scope.year_begin) ELSE None,
            year_before |-> IF "scope" \in DOMAIN d /\ "year_end" \in DOMAIN d.scope
                            THEN Some(d.scope.year_end) ELSE None,
            mbox |-> Some(<<d.mbox>>),
            timeout |-> IF "timeout" \in DOMAIN d THEN d.timeout ELSE DEFAULT_TIMEOUT,
            threshold |-> IF "threshold" \in DOMAIN d THEN d.threshold
                          ELSE DEFAULT_THRESHOLD])

\* DownloadResult.calculate_duration, download_result.py lines 98-108, with
\* the timestamps counted in seconds
calculate_duration(r) ==
    IF r.start_datetime = None \/ r.end_datetime = None THEN 0
    ELSE r.end_datetime[1] - r.start_datetime[1]

\* DownloadResult.to_dict, download_result.py lines 123-141
DownloadResult_to_dict(r, now) ==
    LET c == IF r.context = None THEN NotCalled
             ELSE DownloadContext_to_dict(r.context[1])
    IN
    IF c.raised # "none" THEN Raise(c.raised)
    ELSE Returned("dict",
           ("date" :> now)
           @@ Key(r.context # None, "context", c.v[1])
           @@ Key(r.start_datetime # None, "timings",
                  [start |-> r.start_datetime, end |-> r.end_datetime,
                   duration |-> calculate_duration(r)])
           @@ ("statistics" :> [total |-> r.total_mails,
                                downloaded |-> r.download_mails,
                                skipped |-> r.skip_mails])
           @@ ("logs" :> r.logs))

\* DownloadResult.from_dict, download_result.py lines 143-160
DownloadResult_from_dict(d) ==
    IF "context" \notin DOMAIN d THEN Returned("dict", d)
    ELSE LET c == DownloadContext_from_dict(d.context) IN
         IF c.raised # "none" THEN Raise(c.raised)
         ELSE Returned("DownloadResult",
                [context |-> c.v,
                 logs |-> IF "logs" \in DOMAIN d THEN d.logs ELSE << >>,
                 total_mails |-> IF "statistics" \in DOMAIN d
                                 THEN d.statistics.total ELSE 0,
                 download_mails |-> IF "statistics" \in DOMAIN d
                                    THEN d.statistics.downloaded ELSE 0,
                 skip_mails |-> IF "statistics" \in DOMAIN d
                                THEN d.statistics.skipped ELSE << >>,
                 start_datetime |-> IF "timings" \in DOMAIN d
                                    THEN d.timings.start ELSE None,
                 end_datetime |-> IF "timings" \in DOMAIN d
                                  THEN d.timings.end ELSE None])

\* the results and contexts a to_dict is called on
Servers == {None, Some([name |-> "Yahoo", host |-> "imap.mail.yahoo.com",
                        port |-> DEFAULT_PORT])}
Accounts == {None, Some([name |-> "example@example.org", password |-> "secret"])}
Folders == {None, Some([name |-> <<LetterA>>, count |-> -1]),
            Some([name |-> <<LetterA>>, count |-> 2])}
Years == {None, Some(2020)}
Mboxes == {None, Some(<<"out", "test.mbox">>)}
Contexts ==
    [agent : {None}, server : Servers, account : Accounts, folder : Folders,
     year_since : Years, year_before : Years, mbox : Mboxes,
     timeout : {DEFAULT_TIMEOUT}, threshold : {DEFAULT_THRESHOLD}]
Timings == {<<None, None>>, <<Some(1), Some(1)>>, <<Some(1), Some(2)>>}
Results ==
    {[context |-> c, total_mails |-> Len(k) + n, download_mails |-> n,
      skip_mails |-> k, logs |-> l, start_datetime |-> t[1],
      end_datetime |-> t[2]] :
        c \in {None} \cup {Some(x) : x \in Contexts}, n \in 0..1,
        k \in {<< >>, <<2>>}, l \in {<< >>, <<"first", "second">>},
        t \in Timings}

InitManifest ==
    /\ Constructed
    /\ gui = NewGui
    /\ duo = NoDuo
    /\ lf = NoList
    /\ sess = NoSess
    /\ codec = NoCodec
    /\ bag = NoBag
    /\ \E r \in Results : manifest = [NoManifest EXCEPT !.r = r]

\* r.to_dict()
ManifestToDict ==
    /\ manifest.op = "none"
    /\ \E now \in 2..3 :
          manifest' = [manifest EXCEPT !.op = "to_dict",
                                       !.dct = DownloadResult_to_dict(manifest.r, now)]
    /\ UNCHANGED <<rvars, lf, sess, codec, bag, gui, duo>>

\* DownloadResult.from_dict(dictionary)
ManifestFromDict ==
    /\ manifest.op = "to_dict"
    /\ manifest.dct.raised = "none"
    /\ manifest' = [manifest EXCEPT !.op = "from_dict",
                                    !.back = DownloadResult_from_dict(manifest.dct.v[1])]
    /\ UNCHANGED <<rvars, lf, sess, codec, bag, gui, duo>>

\* one search criterion with its date, as it is formatted: key "DD-Mon-YYYY"
Criterion(key, day, month, year) ==
    [key |-> key, day |-> day, month |-> month, year |-> year]

\* a search expression: the word ALL, or the criteria inside one pair of
\* parentheses
Expression(word, crits) == [word |-> word, parens |-> crits # << >>, crits |-> crits]

\* an expression that puts the upper bound first
build_search_string_BeforeFirst(year_since, year_before) ==
    IF year_since = None
    THEN IF year_before = None THEN Expression("ALL", << >>)
         ELSE Expression("", <<Criterion("SENTBEFORE", 31, "Dec", year_before[1])>>)
    ELSE IF year_before = None
         THEN Expression("", <<Criterion("SENTSINCE", 1, "Jan", year_since[1])>>)
         ELSE Expression("", <<Criterion("SENTBEFORE", 31, "Dec", year_before[1]),
                               Criterion("SENTSINCE", 1, "Jan", year_since[1])>>)

\* _build_search_string, imap_download.py lines 429-439
build_search_string(year_since, year_before) ==
    IF year_since = None
    THEN IF year_before = None THEN Expression("ALL", << >>)
         ELSE Expression("", <<Criterion("SENTBEFORE", 31, "Dec", year_before[1])>>)
    ELSE IF year_before = None
         THEN Expression("", <<Criterion("SENTSINCE", 1, "Jan", year_since[1])>>)
         ELSE Expression("", <<Criterion("SENTSINCE", 1, "Jan", year_since[1]),
                               Criterion("SENTBEFORE", 31, "Dec", year_before[1])>>)

\* the year bounds a caller may give
YearBounds == {None, Some(0), Some(2020), Some(2021)}

\* the expression get_mails_mbox builds from its year bounds, lines 460-462
BuildSearch ==
    /\ manifest.op = "none"
    /\ \E ys \in YearBounds, yb \in YearBounds :
          manifest' = [manifest EXCEPT !.op = "search",
                                       !.years = <<ys, yb>>,
                                       !.search = <<build_search_string(ys, yb)>>]
    /\ UNCHANGED <<rvars, lf, sess, codec, bag, gui, duo>>

NextManifest ==
    \/ BuildSearch
    \/ ManifestToDict
    \/ ManifestFromDict

SpecManifest == InitManifest /\ [][NextManifest]_vars


(* ------------------------------ the delivery --------------------------- *)
\* CHUNK_SIZE, mbox_delivery.py line 14, counted in bytes of the model
ChunkLen == 2
\* longest source file, in chunks
MaxChunks == 2

\* hashlib.md5: update() appends to what the digest covers, hexdigest() is
\* the MD5 of it; MD5 is taken as collision-free on these contents
update_Once(fed, chunk) == IF fed = << >> THEN chunk ELSE fed
update(fed, chunk) == fed \o chunk
hexdigest(fed) == [md5 |-> fed]

\* chunked(file, CHUNK_SIZE): the next read of at most CHUNK_SIZE bytes
Chunk(rest) == SubSeq(rest, 1, IF Len(rest) < ChunkLen THEN Len(rest) ELSE ChunkLen)
AfterChunk(rest) == SubSeq(rest, Len(Chunk(rest)) + 1, Len(rest))

\* outcome of a call on the file system or on the archive
IoOutcomes == {"ok", "OSError"}

\* the contents of a file: every byte string up to n bytes
RECURSIVE BytesUpTo(_)
BytesUpTo(n) ==
    IF n = 0 THEN {<< >>}
    ELSE BytesUpTo(n - 1) \cup {Append(b, x) : b \in BytesUpTo(n - 1), x \in 0..1}

\* progress_cb(status, number, total, msg), with the number of entries the
\* archive holds at the call
Phase(b, status, number, total) ==
    IF b.progress_cb
    THEN Append(b.phases, [status |-> status, number |-> number, total |-> total,
                           entries |-> Len(b.archive)])
    ELSE b.phases

\* an OSError raised at a step of transform: the handler is entered
Fail(b) == [b EXCEPT !.exc = "OSError", !.pos = "except",
                     !.failed = <<[step |-> b.pos, entries |-> Len(b.archive)]>>]

\* the statement that follows an entry inside the with block, lines 115-159
after_NoMetadata(pos) ==
    CASE pos = "bagit" -> "data"
      [] pos = "data" -> "manifest"
      [] pos = "manifest" -> "info"
      [] pos = "metadata" -> "tagmanifest"
      [] pos = "tagmanifest" -> "info"
      [] pos = "info" -> "close"
after(pos) ==
    CASE pos = "bagit" -> "data"
      [] pos = "data" -> "manifest"
      [] pos = "manifest" -> "metadata"
      [] pos = "metadata" -> "tagmanifest"
      [] pos = "tagmanifest" -> "info"
      [] pos = "info" -> "close"

\* the except clause of transform, line 166
CaughtDelivery_Nothing(e) == FALSE
CaughtDelivery(e) == e = "OSError"

\* writestr(create_regular_zipinfo(name), content): one more entry
Entry(name, content) == [name |-> name, content |-> content]

\* the name and content of the entries written by writestr
StrName(pos) ==
    CASE pos = "bagit" -> <<"bagit.txt">>
      [] pos = "manifest" -> <<"manifest-md5.txt">>
      [] pos = "tagmanifest" -> <<"tagmanifest-md5.txt">>
      [] pos = "info" -> <<"bagit-info.txt">>
StrContent(b) ==
    CASE b.pos = "bagit" -> [text |-> "BagIt-Version: 1.0"]
      [] b.pos = "manifest" -> [digest |-> b.data_md5, of |-> b.data_name]
      [] b.pos = "tagmanifest" -> [digest |-> b.metadata_md5, of |-> b.metadata_name]
      [] b.pos = "info" -> [oxum |-> Len(b.mbox_bytes)]

InitDelivery ==
    /\ Constructed
    /\ gui = NewGui
    /\ duo = NoDuo
    /\ lf = NoList
    /\ sess = NoSess
    /\ codec = NoCodec
    /\ manifest = NoManifest
    /\ \E cb \in BOOLEAN, hc \in BOOLEAN,
          mb \in BytesUpTo(MaxChunks * ChunkLen),
          jb \in {SubSeq(<<1, 0, 1, 1, 0, 1, 0, 0>>, 1, n) : n \in {0, 1, ChunkLen + 1}} :
          bag = [NoBag EXCEPT !.pos = "start", !.progress_cb = cb,
                              !.has_context = hc,
                              !.src_mbox = <<"work", "INBOX.mbox">>,
                              !.src_json = <<"work", "INBOX.json">>,
                              !.mbox_bytes = mb, !.json_bytes = jb,
                              !.mbox_exists = TRUE, !.json_exists = TRUE]

\* lines 109-112: count = 0, the size of the container, the start callback
TransformStart ==
    /\ bag.pos = "start"
    /\ \E o \in IoOutcomes :
          bag' = IF o = "OSError" THEN Fail(bag)
                 ELSE [bag EXCEPT !.pos = "open",
                                  !.phases = Phase(bag, "start", 0, Len(bag.mbox_bytes))]
    /\ UNCHANGED <<rvars, lf, sess, codec, manifest, gui, duo>>

\* line 114: ZipFile(dest_zip, "w")
TransformOpen ==
    /\ bag.pos = "open"
    /\ \E o \in IoOutcomes :
          bag' = IF o = "OSError" THEN Fail(bag)
                 ELSE [bag EXCEPT !.pos = "bagit"]
    /\ UNCHANGED <<rvars, lf, sess, codec, manifest, gui, duo>>

\* lines 116-121, 130-135, 144-149, 152-159: writestr and count += 1; the
\* last one asks the result for the bag information, which a result without
\* context cannot give (AttributeError)
WriteStr ==
    /\ bag.pos \in {"bagit", "manifest", "tagmanifest", "info"}
    /\ \E o \in IoOutcomes :
          bag' = IF o = "OSError" THEN Fail(bag)
                 ELSE IF bag.pos = "info" /\ ~bag.has_context
                 THEN [bag EXCEPT !.exc = "AttributeError", !.pos = "except"]
                 ELSE [bag EXCEPT !.archive = Append(@, Entry(StrName(bag.pos),
                                                            StrContent(bag))),
                                  !.count = @ + 1,
                                  !.pos = after(bag.pos)]
    /\ UNCHANGED <<rvars, lf, sess, codec, manifest, gui, duo>>

\* lines 78-90: the entry name, the size, the source opened for reading and
\* the entry opened for writing
CopyBegin ==
    /\ bag.pos \in {"data", "metadata"}
    /\ \E o \in IoOutcomes :
          bag' = IF o = "OSError" THEN Fail(bag)
                 ELSE [bag EXCEPT
                         !.cur = [name |-> IF bag.pos = "data"
                                           THEN <<"data", basename(bag.src_mbox)>>
                                           ELSE <<"metadata", basename(bag.src_json)>>,
                                  rest |-> IF bag.pos = "data" THEN bag.mbox_bytes
                                           ELSE bag.json_bytes,
                                  fed |-> << >>, written |-> << >>],
                         !.pos = IF bag.pos = "data" THEN "dataChunk"
                                 ELSE "metadataChunk"]
    /\ UNCHANGED <<rvars, lf, sess, codec, manifest, gui, duo>>

\* lines 91-102: one chunk is read, given to the digest, written to the
\* entry and reported; the read or the write may fail
CopyChunk ==
    /\ bag.pos \in {"dataChunk", "metadataChunk"}
    /\ bag.cur.rest # << >>
    /\ \E rd \in IoOutcomes, wr \in IoOutcomes :
          LET chunk == Chunk(bag.cur.rest)
              size == IF bag.pos = "dataChunk" THEN Len(bag.mbox_bytes)
                      ELSE Len(bag.json_bytes)
              fed == [bag EXCEPT !.cur.rest = AfterChunk(bag.cur.rest),
                                 !.cur.fed = update(@, chunk)]
          IN
          bag' = IF rd = "OSError" THEN Fail(bag)
                 ELSE IF wr = "OSError" THEN Fail(fed)
                 ELSE [fed EXCEPT !.cur.written = @ \o chunk,
                                  !.phases = Phase(bag, "running",
                                                   Len(bag.cur.written) + Len(chunk),
                                                   size)]
    /\ UNCHANGED <<rvars, lf, sess, codec, manifest, gui, duo>>

\* the read answers b"": the entry and the source are closed, lines 89-90,
\* the name and the digest are returned, lines 103-104, count += 1
CopyEnd ==
    /\ bag.pos \in {"dataChunk", "metadataChunk"}
    /\ bag.cur.rest = << >>
    /\ \E rd \in IoOutcomes, cl \in IoOutcomes :
          LET isdata == bag.pos = "dataChunk"
              step == IF isdata THEN "data" ELSE "metadata"
          IN
          bag' = IF rd = "OSError" \/ cl = "OSError" THEN Fail(bag)
                 ELSE [bag EXCEPT
                         !.archive = Append(@, Entry(bag.cur.name,
                                                     [bytes |-> bag.cur.written])),
                         !.data_name = IF isdata THEN bag.cur.name ELSE @,
                         !.data_md5 = IF isdata THEN <<hexdigest(bag.cur.fed)>> ELSE @,
                         !.metadata_name = IF isdata THEN @ ELSE bag.cur.name,
                         !.metadata_md5 = IF isdata THEN @
                                          ELSE <<hexdigest(bag.cur.fed)>>,
                         !.count = @ + 1,
                         !.pos = after(step)]
    /\ UNCHANGED <<rvars, lf, sess, codec, manifest, gui, duo>>

\* the with block is left: the archive is closed; lines 160-165: the
\* complete callback
TransformClose ==
    /\ bag.pos = "close"
    /\ \E o \in IoOutcomes :
          bag' = IF o = "OSError" THEN Fail(bag)
                 ELSE [bag EXCEPT !.pos = "return",
                                  !.phases = Phase(bag, "complete",
                                                   Len(bag.mbox_bytes),
                                                   Len(bag.mbox_bytes))]
    /\ UNCHANGED <<rvars, lf, sess, codec, manifest, gui, duo>>

\* lines 166-168: the handler of OSError; another exception leaves transform
TransformExcept ==
    /\ bag.pos = "except"
    /\ bag' = IF CaughtDelivery(bag.exc)
              THEN [bag EXCEPT !.pos = "return",
                               !.phases = Phase(bag, "error", 0, 0)]
              ELSE [bag EXCEPT !.pos = "raised"]
    /\ UNCHANGED <<rvars, lf, sess, codec, manifest, gui, duo>>

\* line 169: return count
TransformReturn ==
    /\ bag.pos = "return"
    /\ bag' = [bag EXCEPT !.pos = "returned", !.ret = <<bag.count>>]
    /\ UNCHANGED <<rvars, lf, sess, codec, manifest, gui, duo>>

\* clean(), lines 171-177: the two removals inside one try; the first
\* OSError ends the block
Clean ==
    /\ bag.pos \in {"returned", "raised"}
    /\ \E m \in BOOLEAN, j \in BOOLEAN :
          bag' = [bag EXCEPT !.pos = "cleaned",
                             !.removable = <<[mbox |-> m, json |-> j]>>,
                             !.mbox_exists = ~m,
                             !.json_exists = IF m THEN ~j ELSE @]
    /\ UNCHANGED <<rvars, lf, sess, codec, manifest, gui, duo>>

NextDelivery ==
    \/ TransformStart
    \/ TransformOpen
    \/ WriteStr
    \/ CopyBegin
    \/ CopyChunk
    \/ CopyEnd
    \/ TransformClose
    \/ TransformExcept
    \/ TransformReturn
    \/ Clean

SpecDelivery == InitDelivery /\ [][NextDelivery]_vars


SpecLong == Init /\ [][NextLong]_vars

(* ------------------------------- the window --------------------------- *)
\* at most MaxThreads worker threads are followed
MaxThreads == 2

\* disable_gui_on_work, donate_gui.py lines 97-109
disable_gui_on_work(g) ==
    [g EXCEPT !.folders_btn = "disabled", !.retrieve_btn = "disabled",
              !.delivery_btn = "disabled", !.widgets = "disabled"]

\* enable_gui_after_work(enables_btns), lines 111-123
enable_gui_after_work(g, btns) ==
    [g EXCEPT !.folders_btn = IF "folders" \in btns THEN "normal" ELSE @,
              !.retrieve_btn = IF "retrieve" \in btns THEN "normal" ELSE @,
              !.delivery_btn = IF "delivery" \in btns THEN "normal" ELSE @,
              !.widgets = "normal"]

\* a worker thread: what it runs, whether it was given a callback, whether
\* it holds the lock of the container
Thread(kind, cb) == [kind |-> kind, cb |-> cb, holds |-> FALSE]

\* on_folders, lines 134-159: error boxes without a server or a login, else
\* the window is disabled and a thread is started on list_folders with the
\* callback progress_folder
on_folders(g) ==
    IF ~g.server \/ ~g.user THEN g
    ELSE [disable_gui_on_work(g) EXCEPT
             !.cursor = "watch",
             !.threads = Append(@, Thread("list_folders", TRUE))]

\* on_retrieve, lines 192-218: without a selected folder an error box, else
\* the window is disabled, the container is removed and a thread is started
\* on get_mails_mbox(temp_mbox, folder, self.progress_retrieve): the third
\* positional parameter is year_since, progress_cb stays None
on_retrieve(g) ==
    IF ~g.selected_folder THEN g
    ELSE [disable_gui_on_work(g) EXCEPT
             !.cursor = "watch",
             !.mbox = FALSE,
             !.removed_locked = @ \/ \E i \in 1..Len(g.threads) : g.threads[i].holds,
             !.threads = Append(@, Thread("get_mails_mbox", FALSE))]

\* on_delivery, lines 255-285: error boxes without a selected folder or
\* without the container; MboxDelivery(temp_zip, temp_mbox) lacks the
\* argument src_json of MboxDelivery.__init__ and raises TypeError before a
\* thread is made
on_delivery(g) ==
    IF ~g.selected_folder \/ ~g.mbox THEN g
    ELSE [g EXCEPT !.cursor = "watch", !.raised = "TypeError"]

\* the handler of a button or of its shortcut
Handler(name, g) ==
    IF name = "folders" THEN on_folders(g)
    ELSE IF name = "retrieve" THEN on_retrieve(g)
    ELSE on_delivery(g)

Buttons == {"folders", "retrieve", "delivery"}

\* state of a button of the window
StateOf(name, g) ==
    IF name = "folders" THEN g.folders_btn
    ELSE IF name = "retrieve" THEN g.retrieve_btn
    ELSE g.delivery_btn

InitGui ==
    /\ Constructed
    /\ lf = NoList
    /\ sess = NoSess
    /\ codec = NoCodec
    /\ manifest = NoManifest
    /\ bag = NoBag
    /\ gui = NewGui
    /\ duo = NoDuo

\* on_server_changed, lines 125-132, bound to the combobox (line 555)
ServerChanged ==
    /\ gui.widgets = "normal"
    /\ gui' = [enable_gui_after_work(gui, {"folders"}) EXCEPT
                  !.server = TRUE, !.folders = FALSE]
    /\ UNCHANGED <<rvars, lf, sess, codec, manifest, bag, duo>>

\* the user types in the login entry, or empties it
TypeLogin ==
    /\ gui.widgets = "normal"
    /\ \E u \in BOOLEAN : gui' = [gui EXCEPT !.user = u]
    /\ UNCHANGED <<rvars, lf, sess, codec, manifest, bag, duo>>

\* on_click_folders_listbox, lines 329-335
ClickListbox ==
    /\ gui.widgets = "normal"
    /\ gui.folders
    /\ gui' = [gui EXCEPT !.selected_folder = TRUE]
    /\ UNCHANGED <<rvars, lf, sess, codec, manifest, bag, duo>>

\* a click on a button: a disabled button does not call its command
Press ==
    /\ \E b \in Buttons :
          /\ StateOf(b, gui) = "normal"
          /\ Len(Handler(b, gui).threads) <= MaxThreads
          /\ gui' = Handler(b, gui)
    /\ UNCHANGED <<rvars, lf, sess, codec, manifest, bag, duo>>

\* Control-d, Control-r, Control-l, bound with bind_all (lines 497, 509,
\* 520): the binding is on the window, not on the button
Shortcut ==
    /\ \E b \in Buttons :
          /\ Len(Handler(b, gui).threads) <= MaxThreads
          /\ gui' = Handler(b, gui)
    /\ UNCHANGED <<rvars, lf, sess, codec, manifest, bag, duo>>

\* s without its i-th element
Without(s, i) == SubSeq(s, 1, i - 1) \o SubSeq(s, i + 1, Len(s))

\* progress_folder, lines 161-190, called by list_folders before it
\* returns: complete, error, or no terminal call (a LIST status other than
\* OK returns without one, imap_download.py lines 181-184)
progress_folder(g, status) ==
    IF status = "complete"
    THEN [enable_gui_after_work(g, {"folders", "retrieve"}) EXCEPT
             !.folders = TRUE, !.cursor = ""]
    ELSE IF status = "error"
    THEN [enable_gui_after_work(g, {"folders"}) EXCEPT !.cursor = ""]
    ELSE g

\* the thread of list_folders comes to its end
ListWorkerEnd ==
    /\ \E i \in 1..Len(gui.threads), status \in {"complete", "error", "none"} :
          /\ gui.threads[i].kind = "list_folders"
          /\ gui' = [progress_folder(gui, status) EXCEPT
                        !.threads = Without(gui.threads, i)]
    /\ UNCHANGED <<rvars, lf, sess, codec, manifest, bag, duo>>

\* imap_download.py lines 476-478 in a worker: the container is recreated
\* and locked
RetrieveLock ==
    /\ \E i \in 1..Len(gui.threads) :
          /\ gui.threads[i].kind = "get_mails_mbox"
          /\ ~gui.threads[i].holds
          /\ gui' = [gui EXCEPT !.threads[i].holds = TRUE, !.mbox = TRUE]
    /\ UNCHANGED <<rvars, lf, sess, codec, manifest, bag, duo>>

\* the thread of get_mails_mbox comes to its end, before or after the
\* container was opened; it has no callback to call
RetrieveEnd ==
    /\ \E i \in 1..Len(gui.threads) :
          /\ gui.threads[i].kind = "get_mails_mbox"
          /\ gui' = [gui EXCEPT !.threads = Without(gui.threads, i)]
    /\ UNCHANGED <<rvars, lf, sess, codec, manifest, bag, duo>>

NextGui ==
    \/ ServerChanged
    \/ TypeLogin
    \/ ClickListbox
    \/ Press
    \/ Shortcut
    \/ ListWorkerEnd
    \/ RetrieveLock
    \/ RetrieveEnd

SpecGui == InitGui /\ [][NextGui]_vars

(* ------------------------ two runs, two passwords ---------------------- *)
\* the passwords: at most MaxSecret characters out of a letter and a
\* character outside ASCII
MaxSecret == 2

RECURSIVE SecretsUpTo(_)
SecretsUpTo(n) ==
    IF n = 0 THEN {<< >>}
    ELSE SecretsUpTo(n - 1)
           \cup {Append(t, c) : t \in SecretsUpTo(n - 1), c \in {LetterA, EAcute}}

Passwords == SecretsUpTo(MaxSecret) \ {<< >>}

\* positions of the characters of t that the ascii codec cannot encode
NotAscii(t) == {i \in 1..Len(t) : t[i] >= 128}

\* the text of an exception: its message and, for UnicodeEncodeError, the
\* character that could not be encoded and its position in the argument
ErrText(msg, ch, position) == [msg |-> msg, ch |-> ch, position |-> position]

\* a run of get_mails_mbox as its outputs see it; at is the place reached
NewRun == [at |-> "login", logs |-> << >>, res |-> start(NewResult, 1),
           ret_code |-> TRUE, last_error |-> ErrText("None", 0, 0)]

\* imap_download.py lines 117-131 in get_mails_mbox, with its except clauses
\* (lines 537-553). connect is the outcome of IMAP4_SSL(...), answer the
\* server's answer to a LOGIN command. imaplib encodes the arguments of a
\* command with bytes(arg, 'ascii') before it sends anything: a password
\* outside ASCII raises UnicodeEncodeError, a ValueError, whose text names
\* the character and its position in the quoted password; the ValueError
\* clause does not log, the IMAP4.error clause does
LoginStep(rn, password, connect, answer) ==
    LET logged == [rn EXCEPT !.logs = Append(@, "Connect to server")] IN
    IF connect # "ok"
    THEN IF Caught(connect)
         THEN [logged EXCEPT !.at = "returned", !.ret_code = FALSE,
                             !.last_error = ErrText(ErrMsg(connect), 0, 0)]
         ELSE [logged EXCEPT !.at = "raised"]
    ELSE LET named == [logged EXCEPT !.logs = Append(@, "Login with name")] IN
         IF NotAscii(password) # {}
         THEN LET i == CHOOSE k \in NotAscii(password) :
                          \A j \in NotAscii(password) : k <= j
              IN  [named EXCEPT !.at = "returned", !.ret_code = FALSE,
                                !.last_error = ErrText(ErrMsg("ValueError"),
                                                       password[i], i)]
         ELSE IF answer = "authfailed"
         THEN [named EXCEPT !.at = "returned", !.ret_code = FALSE,
                            !.logs = Append(@, "ErrorType error"),
                            !.last_error = ErrText(ErrMsg("authfailed"), 0, 0)]
         ELSE [named EXCEPT !.at = "search"]

\* lines 459-536 for a plan of n messages that are all fetched at the first
\* attempt, or a search that is not answered OK
RetrieveStep(rn, found, n) ==
    IF rn.at # "search" THEN rn
    ELSE IF found # "OK"
    THEN [rn EXCEPT !.at = "returned", !.ret_code = FALSE,
                    !.logs = Append(@, "Bad response"),
                    !.last_error = ErrText(ErrMsg("ValueError"), 0, 0)]
    ELSE [rn EXCEPT !.at = "returned",
                    !.res = end(rn.res, n, n, 2),
                    !.last_error = ErrText("", 0, 0)]

\* what a run leaves behind: the log lines of its DownloadResult, the
\* manifest (download_result.py to_dict: statistics, timings, logs; the
\* account by its name) and bagit-info (the description counts the mails)
Outputs(rn) ==
    [logs |-> rn.logs,
     manifest |-> [account |-> ImapAccount_to_dict([name |-> "name"]),
                   total |-> rn.res.total_mails,
                   downloaded |-> rn.res.download_mails,
                   skipped |-> rn.res.skip_mails,
                   timings |-> <<rn.res.start_datetime, rn.res.end_datetime>>,
                   logs |-> rn.logs],
     bagit |-> [mails |-> rn.res.download_mails]]

InitSecret ==
    /\ Constructed
    /\ lf = NoList
    /\ sess = NoSess
    /\ codec = NoCodec
    /\ manifest = NoManifest
    /\ bag = NoBag
    /\ gui = NewGui
    /\ \E p1 \in Passwords, p2 \in Passwords :
          /\ p1 # p2
          /\ duo = [pos |-> "login", pw |-> <<p1, p2>>, run |-> <<NewRun, NewRun>>]

\* both runs log in, against the same server
DuoLogin ==
    /\ duo.pos = "login"
    /\ \E connect \in LoginOutcomes \ {"authfailed"}, answer \in {"ok", "authfailed"} :
          duo' = [duo EXCEPT
                    !.pos = "search",
                    !.run = <<LoginStep(duo.run[1], duo.pw[1], connect, answer),
                              LoginStep(duo.run[2], duo.pw[2], connect, answer)>>]
    /\ UNCHANGED <<rvars, lf, sess, codec, manifest, bag, gui>>

\* both runs go on, against the same server
DuoRetrieve ==
    /\ duo.pos = "search"
    /\ \E found \in {"OK", "NO"}, n \in 0..MaxNum :
          duo' = [duo EXCEPT
                    !.pos = "done",
                    !.run = <<RetrieveStep(duo.run[1], found, n),
                              RetrieveStep(duo.run[2], found, n)>>]
    /\ UNCHANGED <<rvars, lf, sess, codec, manifest, bag, gui>>

NextSecret ==
    \/ DuoLogin
    \/ DuoRetrieve

SpecSecret == InitSecret /\ [][NextSecret]_vars

TypeOK ==
    /\ pc \in {"idle", "login", "select", "search", "open", "loop", "fetch1",
               "abortReconnect", "fetch2", "noReconnect", "fetch3", "dispatch",
               "finally", "end", "except", "returned", "raised", "lfLogin",
               "lfList", "lfLine", "lfProbe", "lfExcept", "lfSorted"}
    /\ mailconn \in {"Disconnected", "Connected", "Authenticated",
                    "FolderSelected", "LoggedOut"}
    /\ numbers \in Plans
    /\ count_msgs \in 0..MaxNum
    /\ rv \in FetchStatus \cup {"none"}
    /\ ret_code \in BOOLEAN

(* ============================== properties ============================= *)
\* the elements of a sequence
Range(sq) == {sq[i] : i \in 1..Len(sq)}

\* e is an exception (not the normal end of the loop, not an early return)
Raised(e) == e \notin {"none", "return"}

\* the run has returned after the loop ended normally
Completed == pc = "returned" /\ exc = "none" /\ idx >= 1

\* the calls of progress_cb of a given phase
CbOf(phase) == {i \in 1..Len(callbacks) : callbacks[i].phase = phase}

\* the planned numbers that are not in the skip list, in plan order
Kept(plan, skipped) == SelectSeq(plan, LAMBDA n : n \notin Range(skipped))

\* _fetch_mail has just returned NO for the second time: the first status
\* was NO, the reconnect with the extended cooldown followed, the retried
\* fetch returned NO again
TwoNo ==
    /\ pc = "dispatch"
    /\ Len(trail) >= 3
    /\ trail[Len(trail)] = Fet(numbers[idx], "FolderSelected", "NO")
    /\ trail[Len(trail) - 1].ev = "reconnect"
    /\ trail[Len(trail) - 1].why = "no"
    /\ trail[Len(trail) - 1].wait = WaitNo
    /\ trail[Len(trail) - 2] = Fet(numbers[idx], "FolderSelected", "NO")

C2_ContainerIsPlanMinusSkips ==
    /\ pc = "loop" =>
          dest_mbox.msgs = Kept(SubSeq(numbers, 1, idx - 1), result.skip_mails)
    /\ (pc = "end" \/ Completed) =>
          /\ dest_mbox.msgs = Kept(numbers, result.skip_mails)
          /\ Range(result.skip_mails) \subseteq Range(numbers)
          /\ Len(dest_mbox.msgs) + Len(result.skip_mails) = Len(numbers)

\* C2 witness: a completed run over three numbers with a scheduled
\* reconnect, a skip and two appended messages
C2_Witness ==
    /\ Completed
    /\ Len(numbers) = 3
    /\ proactiveAt # {}
    /\ Len(result.skip_mails) = 1
    /\ Len(dest_mbox.msgs) = 2

\* the retry that follows a NO has just returned a status other than OK: the
\* first status was NO, the reconnect with the extended cooldown followed
NoThenNotOk ==
    /\ pc = "dispatch"
    /\ rv # "OK"
    /\ Len(trail) >= 3
    /\ trail[Len(trail)] = Fet(numbers[idx], "FolderSelected", rv)
    /\ trail[Len(trail) - 1].ev = "reconnect"
    /\ trail[Len(trail) - 1].why = "no"
    /\ trail[Len(trail) - 2] = Fet(numbers[idx], "FolderSelected", "NO")

Scheduled(n) == {i \in 1..n : i % threshold = 0}

\* C4: in a run where every fetch so far returned OK at its first attempt,
\* a scheduled reconnect (wait 3 s, logout, login, select) was made before
\* exactly the plan positions that are multiples of the threshold, it is the
\* last thing done before the fetch of that position, and a completed run of
\* L messages made exactly L \div N of them and appended L messages.
C4_ProactiveEveryNth ==
    /\ (firstTryOK /\ pc \in {"fetch1", "dispatch"}) =>
          /\ proactiveAt = Scheduled(idx)
          /\ count_msgs = idx - 1
    /\ (firstTryOK /\ pc = "fetch1") =>
          IF idx % threshold = 0
          THEN /\ Len(trail) = 1
               /\ trail[1].ev = "reconnect"
               /\ trail[1].why = "proactive"
               /\ trail[1].wait = WaitDefault
          ELSE trail = << >>
    /\ (firstTryOK /\ Completed) =>
          /\ proactiveAt = Scheduled(Len(numbers))
          /\ Cardinality(proactiveAt) = Len(numbers) \div threshold
          /\ Len(dest_mbox.msgs) = Len(numbers)

\* C4 witness: L = 3, N = 2, all fetches OK: one scheduled reconnect, before
\* message 2, and 3 messages in the container
C4_Witness ==
    /\ firstTryOK
    /\ Completed
    /\ threshold = 2
    /\ Len(numbers) = 3
    /\ proactiveAt = {2}
    /\ Len(dest_mbox.msgs) = 3

\* C5 as claimed: after a completed run total_mails is the plan length and
\* download_mails the number of messages appended, so that download_mails
\* plus the number of skipped messages is total_mails.
C5_AsClaimed ==
    Completed =>
        /\ result.total_mails = Len(numbers)
        /\ result.download_mails = Len(dest_mbox.msgs)
        /\ result.download_mails + Len(result.skip_mails) = result.total_mails

\* C6: outside the span between the opening of the container and the finally
\* clause the container is closed, unlocked and flushed: it is so when the
\* run has returned, when an exception left it, and in the except clauses.
C6_ContainerReleased ==
    /\ pc \in {"idle", "login", "select", "search", "open", "end", "except",
               "returned", "raised"} =>
          (~dest_mbox.open /\ ~dest_mbox.locked /\ dest_mbox.unflushed = 0)
    /\ pc \in {"loop", "fetch1", "abortReconnect", "fetch2", "noReconnect",
               "fetch3", "dispatch", "finally"} =>
          (dest_mbox.open /\ dest_mbox.locked)

\* C6 witness: an exception no except clause catches left the run from inside
\* the loop, after a message was appended, and the container is released
C6_Witness ==
    /\ pc = "raised"
    /\ idx >= 2
    /\ Len(dest_mbox.msgs) >= 1
    /\ ~dest_mbox.open
    /\ ~dest_mbox.locked

\* C7 as claimed: when get_mails_mbox returns, on every path, the session is
\* not left in the FolderSelected state.
C7_AsClaimed ==
    pc = "returned" => mailconn # "FolderSelected"

\* the ways a run is aborted that the except clauses and _set_error cover:
\* a fetch status that is neither OK nor NO ("return"), a search status that
\* is not OK (ValueError), a protocol error or an abort raised by a fetch, a
\* select or a reconnect, a timeout, a DNS failure, a credential rejection
ListedErrors == {"return", "ValueError", "error", "abort", "TimeoutError",
                 "gaierror", "authfailed"}

\* C8: a run that ended on one of the listed errors has returned with
\* ret_code False and a non-empty last_error, and when a callback was given
\* it received exactly one error phase, as its last call, carrying
\* last_error, and no complete phase; on return ret_code is True exactly when
\* the loop ended normally, which is exactly when complete was reported.
C8_ErrorsSurface ==
    /\ (pc \in {"returned", "raised"} /\ exc \in ListedErrors) =>
          /\ pc = "returned"
          /\ ~ret_code
          /\ last_error \notin {"None", ""}
          /\ progress_cb =>
                /\ Cardinality(CbOf("error")) = 1
                /\ callbacks[Len(callbacks)].phase = "error"
                /\ callbacks[Len(callbacks)].msg = last_error
                /\ CbOf("complete") = {}
    /\ pc = "returned" =>
          /\ ret_code <=> exc = "none"
          /\ progress_cb => (ret_code <=> Cardinality(CbOf("complete")) = 1)
          /\ ~progress_cb => callbacks = << >>

\* C8 witness: a timeout raised inside the loop, after an appended message,
\* ended the run with the error reported once
C8_Witness ==
    /\ pc = "returned"
    /\ exc = "TimeoutError"
    /\ count_msgs >= 1
    /\ progress_cb
    /\ ~ret_code
    /\ last_error = "Delai de connexion depasse"
    /\ callbacks[Len(callbacks)] = Cb("error", 0, 0, last_error)

\* C9 as claimed: when a run was aborted by an error, end() has been applied
\* before the return: the end timestamp is not older than the start of this
\* run and the two counts are the appended count and the plan length.
C9_AsClaimed ==
    (pc = "returned" /\ ~ret_code) =>
        /\ result.end_datetime >= result.start_datetime
        /\ {result.total_mails, result.download_mails}
              = {count_msgs, Len(numbers)}

\* position in trail of the first fetch of the current message
FirstFetchPos ==
    IF Len(trail) >= 1 /\ trail[1].ev = "reconnect" /\ trail[1].why = "proactive"
    THEN 2 ELSE 1

\* positions in trail of the reconnects made by the abort handler
AbortRecs == {j \in 1..Len(trail) :
                 trail[j].ev = "reconnect" /\ trail[j].why = "abort"}

\* what trail says of the abort handling of the current message
AbortOnce ==
    /\ Cardinality(AbortRecs) <= 1
    /\ pc = "abortReconnect" =>
          /\ Len(trail) = FirstFetchPos
          /\ trail[Len(trail)].ev = "fetch"
          /\ trail[Len(trail)].why = "abort"
          /\ AbortRecs = {}
    /\ \A j \in AbortRecs :
          /\ j = FirstFetchPos + 1
          /\ trail[j - 1].ev = "fetch"
          /\ trail[j - 1].why = "abort"
          /\ trail[j - 1].num \in Range(numbers)
          /\ trail[j].wait = WaitDefault
          /\ (Len(trail) = j) => (pc = "fetch2" \/ Raised(exc))
          /\ (Len(trail) = j /\ pc = "fetch2") => trail[j].conn = mailconn
          /\ (Len(trail) > j) =>
                /\ trail[j + 1].ev = "fetch"
                /\ trail[j + 1].num = trail[j - 1].num
                /\ trail[j + 1].why \in FetchRaises =>
                      /\ Len(trail) = j + 1
                      /\ exc = trail[j + 1].why
                      /\ pc \in {"finally", "except", "returned"}
                      /\ pc = "returned" =>
                            (~ret_code /\ last_error \in {"Erreur de recuperation",
                                                         "Delai de connexion depasse"})
                /\ (Len(trail) > j + 1) =>
                      /\ trail[j + 1].why = "NO"
                      /\ trail[j + 2].ev = "reconnect"
                      /\ trail[j + 2].why = "no"

\* C10: when the first fetch of a message raises abort, the handler makes one
\* reconnect (wait 3 s, logout, login, select) and, when that reconnect
\* returns, fetches the same number again exactly once; whatever that retry
\* raises (abort included) is not retried: no further reconnect or fetch
\* follows and the run ends with ret_code False and an error.
C10_OneRetryAfterAbort ==
    /\ []AbortOnce
    /\ [][ /\ pc = "abortReconnect" =>
                /\ Len(trail') = Len(trail) + 1
                /\ trail'[Len(trail')].ev = "reconnect"
                /\ trail'[Len(trail')].why = "abort"
                /\ pc' = IF Raised(exc') THEN "finally" ELSE "fetch2"
           /\ pc = "fetch2" =>
                /\ Len(trail') = Len(trail) + 1
                /\ trail'[Len(trail')].ev = "fetch"
                /\ trail'[Len(trail')].num = numbers[idx]
                /\ trail'[Len(trail')].why \in FetchRaises =>
                      (pc' = "finally" /\ exc' = trail'[Len(trail')].why)
         ]_vars

\* C10 witness: the retry made after an abort aborted too and the run has
\* returned with the error
C10_Witness ==
    /\ pc = "returned"
    /\ exc = "abort"
    /\ ~ret_code
    /\ Len(trail) >= 3
    /\ trail[Len(trail)].ev = "fetch"
    /\ trail[Len(trail)].why = "abort"
    /\ trail[Len(trail)].conn = "FolderSelected"
    /\ trail[Len(trail) - 1].why = "abort"
    /\ trail[Len(trail) - 1].ev = "reconnect"
    /\ trail[Len(trail) - 2].why = "abort"

\* the entry a step has just added to trail is a reconnect / a fetch
RecAdded == trail' # trail /\ trail' # << >> /\ trail'[Len(trail')].ev = "reconnect"
FetAdded == trail' # trail /\ trail' # << >> /\ trail'[Len(trail')].ev = "fetch"

\* C11: every reconnect of a retrieval run (scheduled, after an abort, after
\* a NO, after a skip) that obtains a connection issues the select of the
\* folder on it; when the reconnect returns, the session it leaves has the
\* folder selected exactly when that select answered OK, and no step changes
\* the session between the reconnect and the next fetch; a fetch on a session
\* with no folder selected is not sent (the command raises).
C11_ReconnectReselects ==
    [][ /\ RecAdded =>
             LET r == trail'[Len(trail')] IN
             /\ r.why \in {"proactive", "abort", "no", "skip"}
             /\ r.conn = mailconn'
             /\ r.conn \in {"Authenticated", "FolderSelected"} =>
                   r.sel \in SelectOutcomes
             /\ ~Raised(exc') => r.sel \in {"OK", "NO"}
             /\ (r.conn = "FolderSelected") <=> (r.sel = "OK")
        /\ FetAdded =>
             LET f == trail'[Len(trail')] IN
             /\ f.conn = mailconn
             /\ f.conn # "FolderSelected" => f.why = "error"
             /\ (trail # << >> /\ trail[Len(trail)].ev = "reconnect") =>
                   /\ trail[Len(trail)].conn = f.conn
                   /\ f.why # "error" => trail[Len(trail)].sel = "OK"
        /\ (pc \in {"fetch1", "fetch2", "fetch3"} /\ pc' = pc) =>
             mailconn' = mailconn
      ]_vars

\* C11 witness: a fetch answered OK on the connection a reconnect made after
\* a NO selected the folder on
C11_Witness ==
    /\ Len(trail) >= 3
    /\ trail[Len(trail)].ev = "fetch"
    /\ trail[Len(trail)].why = "OK"
    /\ trail[Len(trail) - 1].ev = "reconnect"
    /\ trail[Len(trail) - 1].why = "no"
    /\ trail[Len(trail) - 1].sel = "OK"
    /\ trail[Len(trail) - 1].conn = "FolderSelected"

\* s is a prefix of t
IsPrefix(s, t) == Len(s) <= Len(t) /\ \A i \in 1..Len(s) : t[i] = s[i]

\* C12: from the creation of the container of a run on, every step leaves in
\* it the messages it held, in their order, followed by what the step
\* appended (at most one message); in particular no step that reconnects
\* changes the messages.
C12_ContainerOnlyGrows ==
    [][ pc # "open" =>
          /\ IsPrefix(dest_mbox.msgs, dest_mbox'.msgs)
          /\ Len(dest_mbox'.msgs) <= Len(dest_mbox.msgs) + 1
          /\ RecAdded => dest_mbox'.msgs = dest_mbox.msgs
      ]_vars

\* C12 witness: a message was skipped, with its reconnect and its flush, after
\* another had been appended, and the container still holds that one
C12_Witness ==
    /\ pc = "loop"
    /\ Len(dest_mbox.msgs) >= 1
    /\ dest_mbox.msgs[1] = numbers[1]
    /\ result.skip_mails # << >>
    /\ trail # << >>
    /\ trail[Len(trail)].ev = "reconnect"
    /\ trail[Len(trail)].why = "skip"

\* C13: the count of appended messages not yet flushed is always below 20,
\* and inside the loop it is at most the appended count modulo 20: it is zero
\* whenever the appended count is a multiple of 20.
C13_FlushEvery20 ==
    /\ dest_mbox.unflushed < FlushEvery
    /\ pc \in {"loop", "fetch1", "abortReconnect", "fetch2", "noReconnect",
               "fetch3", "dispatch"} =>
          /\ dest_mbox.unflushed <= count_msgs % FlushEvery
          /\ Len(dest_mbox.msgs) = count_msgs

\* C13 witness: the 20th message has just been appended, after 19 appends
\* with no flush in between, and nothing is left unflushed
C13_Witness ==
    /\ pc = "loop"
    /\ count_msgs = FlushEvery
    /\ Len(dest_mbox.msgs) = FlushEvery
    /\ result.skip_mails = << >>
    /\ dest_mbox.unflushed = 0

\* C19 as claimed: encode_mutf7 never raises, and decoding what it returned
\* gives the text back, for every text (none here has a surrogate).
C19_AsClaimed ==
    /\ codec.op = "encode" => codec.raised = "none"
    /\ codec.op = "roundtrip" => (codec.raised = "none" /\ codec.out = codec.text)

\* C20 as claimed: for a text made only of printable ASCII characters
\* encode_mutf7 returns the text with each "&" replaced by "&-".
C20_AsClaimed ==
    (codec.op = "encode" /\ \A i \in 1..Len(codec.text) : codec.text[i] \in ascii_codes)
        => (codec.raised = "none" /\ codec.out = EscapeAmp(codec.text))

\* C15: a login() call made while a connection is held opens no connection,
\* sends no LOGIN command, raises nothing, leaves the session as it is and
\* returns the connection held; so after any number of consecutive calls one
\* connection has been opened.
C15_LoginNoOpWhenHeld ==
    [][ (sess'.calls = sess.calls + 1 /\ sess'.last = "login"
            /\ mailconn # "Disconnected") =>
          /\ sess'.opened = sess.opened
          /\ sess'.auths = sess.auths
          /\ sess'.raised = "none"
          /\ sess'.handle = sess.handle
          /\ sess'.ret = sess.handle
          /\ sess.handle # 0
          /\ mailconn' = mailconn
      ]_vars

\* C15 witness: three login() calls in a row and nothing else: one connection
\* opened, one LOGIN sent, the last call returned that connection
C15_Witness ==
    /\ sess.calls = 3
    /\ sess.last = "login"
    /\ sess.opened = 1
    /\ sess.auths = 1
    /\ sess.handle = 1
    /\ sess.ret = 1
    /\ mailconn = "Authenticated"

\* C16 as claimed: whenever logout() has been called, it has returned without
\* raising and no connection handle is held.
C16_AsClaimed ==
    sess.last = "logout" =>
        /\ sess.raised = "none"
        /\ sess.handle = 0
        /\ mailconn = "Disconnected"

\* a call of list_folders is over: it has returned or an exception left it
ListEnded == pc \in {"returned", "raised"}

\* C14 as claimed: when a call of list_folders that was given a callback is
\* over, a successful listing has delivered exactly one complete callback
\* and no error callback, and a failing one has delivered exactly one error
\* callback and no complete callback, has returned, and has left ret_code
\* False with last_error set.
C14_AsClaimed ==
    (ListEnded /\ progress_cb) =>
        /\ exc = "none" =>
              (Cardinality(CbOf("complete")) = 1 /\ CbOf("error") = {})
        /\ exc # "none" =>
              /\ Cardinality(CbOf("error")) = 1
              /\ CbOf("complete") = {}
              /\ pc = "returned"
              /\ ~ret_code
              /\ last_error # "None"

\* C17 as claimed: a line with a special-use flag is never kept, and a line
\* without any special-use flag is never skipped by the flag filter.
C17_AsClaimed ==
    \A k \in 1..Len(lf.data) :
        LET ln == lf.data[k] IN
        /\ (\E i \in 1..Len(ln.flags) : SpecialUse(ln.flags[i])) => ~ln.kept
        /\ (\A i \in 1..Len(ln.flags) : ~SpecialUse(ln.flags[i])) => ~ln.filtered

\* C18 as claimed: with counts, a folder that passed the flag filter and was
\* probed is dropped exactly when the server reported zero messages for it,
\* and a folder that is kept carries the count the server reported, >= 1.
C18_AsClaimed ==
    lf.with_counts =>
        /\ \A k \in 1..Len(lf.data) :
              LET ln == lf.data[k] IN
              (ln.probe \in {"OK", "NO"} /\ (pc = "lfProbe" => k < Len(lf.data))) =>
                  (~ln.kept <=> (ln.probe = "OK" /\ ln.count = 0))
        /\ \A j \in 1..Len(lf.folders) : lf.folders[j].count >= 1

\* the four kinds of malformed input: a character outside printable ASCII; a
\* "&" with no "-" before the next "&" or the end; a shift section holding a
\* character outside the modified base64 alphabet; two non-empty shift
\* sections back to back
HasNonPrintable(t) == \E i \in 1..Len(t) : t[i] \notin ascii_codes

UnclosedShift(t) ==
    \E i \in 1..Len(t) :
        /\ t[i] = Amp
        /\ \A j \in (i + 1)..Len(t) :
              t[j] = Dash => \E k \in (i + 1)..(j - 1) : t[k] = Amp

BadSectionChar(t) ==
    \E i \in 1..Len(t), k \in 1..Len(t) :
        /\ i < k
        /\ t[i] = Amp
        /\ \A j \in (i + 1)..(k - 1) : IsMB64(t[j])
        /\ t[k] # Dash
        /\ ~IsMB64(t[k])

BackToBack(t) ==
    \E i \in 1..Len(t), k \in 1..Len(t), m \in 1..Len(t) :
        /\ i + 1 < k
        /\ IsShift(t, i, k)
        /\ k + 2 < m
        /\ IsShift(t, k + 1, m)

\* C21 as claimed: decode_mutf7 raises the format error, and returns no
\* text, for every text of one of the four malformed kinds.
C21_AsClaimed ==
    (codec.op = "decode"
        /\ (HasNonPrintable(codec.text) \/ UnclosedShift(codec.text)
              \/ BadSectionChar(codec.text) \/ BackToBack(codec.text)))
      => (codec.raised = "InvalidUTF7FormatException" /\ codec.out = << >>)

\* C22 as claimed: a folder built from a wire name the decoder accepts has
\* decode(name_in_mutf7) = name and encode(name) = name_in_mutf7; after the
\* name setter was called with a text, the setter has returned,
\* name_in_mutf7 = encode(text) and decode(name_in_mutf7) = text.
C22_AsClaimed ==
    /\ (codec.op = "new" /\ codec.raised = "none") =>
          /\ decode_mutf7(codec.folder.name_in_mutf7) = Str(codec.folder.name)
          /\ encode_mutf7(codec.folder.name) = Str(codec.folder.name_in_mutf7)
    /\ codec.op = "setname" =>
          /\ codec.raised = "none"
          /\ Str(codec.folder.name_in_mutf7) = encode_mutf7(codec.text)
          /\ decode_mutf7(codec.folder.name_in_mutf7) = Str(codec.text)

\* C23 as claimed: the sorted folders have non-increasing counts when the
\* counts are known and ascending names when they are unknown, and the
\* comparison is a strict ordering: no folder is less than itself and no two
\* folders are each less than the other.
C23_AsClaimed ==
    pc = "lfSorted" =>
       /\ \A i \in 1..(Len(lf.sorted) - 1) :
             IF lf.with_counts
             THEN lf.sorted[i].count >= lf.sorted[i + 1].count
             ELSE ~StrLt(lf.sorted[i + 1].name, lf.sorted[i].name)
       /\ \A i, j \in 1..Len(lf.folders) :
             /\ ~ImapFolder_lt(lf.folders[i], lf.folders[i])
             /\ ~(ImapFolder_lt(lf.folders[i], lf.folders[j])
                    /\ ImapFolder_lt(lf.folders[j], lf.folders[i]))

\* the sort half of C23 alone
C23_SortedOrder ==
    pc = "lfSorted" =>
       \A i \in 1..(Len(lf.sorted) - 1) :
          IF lf.with_counts
          THEN lf.sorted[i].count >= lf.sorted[i + 1].count
          ELSE ~StrLt(lf.sorted[i + 1].name, lf.sorted[i].name)

\* the context of a result has a server, an account and a folder
FullContext(r) ==
    /\ r.context # None
    /\ r.context[1].server # None
    /\ r.context[1].account # None
    /\ r.context[1].folder # None

\* C24 as claimed: for a result whose context has a server, an account and a
\* folder, from_dict(to_dict()) returns a DownloadResult with the same
\* statistics, log lines, timestamps, and a context with the same server,
\* account name, folder name, year bounds, timeout and threshold.
C24_AsClaimed ==
    (manifest.op = "from_dict" /\ FullContext(manifest.r)) =>
       /\ manifest.back.raised = "none"
       /\ manifest.back.kind = "DownloadResult"
       /\ LET r == manifest.r
              b == manifest.back.v[1]
          IN
          /\ b.total_mails = r.total_mails
          /\ b.download_mails = r.download_mails
          /\ b.skip_mails = r.skip_mails
          /\ b.logs = r.logs
          /\ b.start_datetime = r.start_datetime
          /\ b.end_datetime = r.end_datetime
          /\ b.context # None
          /\ b.context[1].server = r.context[1].server
          /\ b.context[1].account # None
          /\ b.context[1].account[1].name = r.context[1].account[1].name
          /\ b.context[1].folder # None
          /\ b.context[1].folder[1].name = r.context[1].folder[1].name
          /\ b.context[1].year_since = r.context[1].year_since
          /\ b.context[1].year_before = r.context[1].year_before
          /\ b.context[1].timeout = r.context[1].timeout
          /\ b.context[1].threshold = r.context[1].threshold

\* the round trip of a result whose context has neither account nor folder
C24_WithoutAccountAndFolder ==
    (/\ manifest.op = "from_dict"
     /\ manifest.r.context # None
     /\ manifest.r.context[1].account = None
     /\ manifest.r.context[1].folder = None) =>
       /\ manifest.back.raised = "none"
       /\ manifest.back.kind = "DownloadResult"
       /\ LET r == manifest.r
              b == manifest.back.v[1]
          IN
          /\ b.total_mails = r.total_mails
          /\ b.download_mails = r.download_mails
          /\ b.skip_mails = r.skip_mails
          /\ b.logs = r.logs
          /\ b.start_datetime = r.start_datetime
          /\ b.end_datetime = r.end_datetime
          /\ b.context # None
          /\ b.context[1].server = r.context[1].server
          /\ b.context[1].year_since = r.context[1].year_since
          /\ b.context[1].year_before = r.context[1].year_before
          /\ b.context[1].timeout = r.context[1].timeout
          /\ b.context[1].threshold = r.context[1].threshold

\* the entry of the archive that a manifest line names carries the bytes the
\* digest of the line is the MD5 of
DigestMatches(line, dir) ==
    \E k \in 1..Len(bag.archive) :
       /\ bag.archive[k].name = line.content.of
       /\ bag.archive[k].name[1] = dir
       /\ line.content.digest = <<hexdigest(bag.archive[k].content.bytes)>>

\* C25: in every archive transform writes, the digest of manifest-md5.txt is
\* the MD5 of the bytes written to the data/ entry and the digest of
\* tagmanifest-md5.txt the MD5 of the bytes written to the metadata/ entry,
\* for empty, one-chunk and multi-chunk files.
C25_DigestOfWrittenBytes ==
    \A i \in 1..Len(bag.archive) :
       /\ bag.archive[i].name = <<"manifest-md5.txt">>
             => DigestMatches(bag.archive[i], "data")
       /\ bag.archive[i].name = <<"tagmanifest-md5.txt">>
             => DigestMatches(bag.archive[i], "metadata")

\* a bag was completed whose container and metadata took several chunks
C25_Witness ==
    /\ bag.pos = "returned"
    /\ bag.exc = "none"
    /\ Len(bag.archive) = 6
    /\ Len(bag.mbox_bytes) > ChunkLen
    /\ Len(bag.json_bytes) > ChunkLen

\* transform returned without an exception caught or raised
Successful == bag.pos = "returned" /\ bag.exc = "none"

PhasesOf(status) == {i \in 1..Len(bag.phases) : bag.phases[i].status = status}

\* C26: a successful transform has written bagit.txt, data/<container>,
\* manifest-md5.txt, metadata/<metadata>, tagmanifest-md5.txt and
\* bagit-info.txt, each once and in this order, returns 6, and reported the
\* complete phase once, last, with the six entries written.
C26_EntriesInOrder ==
    Successful =>
       /\ [i \in 1..Len(bag.archive) |-> bag.archive[i].name]
            = << <<"bagit.txt">>, <<"data", basename(bag.src_mbox)>>,
                 <<"manifest-md5.txt">>, <<"metadata", basename(bag.src_json)>>,
                 <<"tagmanifest-md5.txt">>, <<"bagit-info.txt">> >>
       /\ bag.ret = <<Len(bag.archive)>>
       /\ bag.progress_cb =>
             /\ PhasesOf("complete") = {Len(bag.phases)}
             /\ bag.phases[Len(bag.phases)].entries = Len(bag.archive)

\* a transform with a callback succeeded
C26_Witness == Successful /\ bag.progress_cb /\ bag.count = 6

\* C27: when a step of transform met an I/O failure, transform returns (it
\* raises nothing) the number of entries written before the failure, and
\* with a callback it reported an error phase and no complete phase.
C27_FailureReturnsCount ==
    (bag.failed # << >> /\ bag.pos \in {"returned", "raised"}) =>
       /\ bag.pos = "returned"
       /\ bag.ret = <<bag.failed[1].entries>>
       /\ bag.progress_cb =>
             /\ PhasesOf("error") # {}
             /\ PhasesOf("complete") = {}

\* the write of a chunk of the metadata entry failed after three entries
C27_Witness ==
    /\ bag.pos = "returned"
    /\ bag.failed = <<[step |-> "metadataChunk", entries |-> 3]>>
    /\ bag.progress_cb
    /\ bag.cur.written # << >>

\* C28 as claimed: after clean() each of the two source files that could be
\* removed is gone, also when the removal of the other one failed.
C28_AsClaimed ==
    bag.pos = "cleaned" =>
       /\ bag.removable[1].mbox => ~bag.mbox_exists
       /\ bag.removable[1].json => ~bag.json_exists

\* what a login attempt can fail with: DNS failure, timeout, another
\* network error, credential rejection
LoginFailures == LoginOutcomes \ {"ok"}

\* the step made a login attempt that did not authenticate: the login of
\* the run on a free handle, or the login of a reconnect (the session a
\* reconnect leaves is recorded in the trail)
FailedLoginStep ==
    \/ /\ pc = "login"
       /\ ~Held(mailconn)
       /\ mailconn' \in {"Disconnected", "Connected"}
    \/ /\ trail' # trail
       /\ trail' # << >>
       /\ trail'[Len(trail')].ev = "reconnect"
       /\ trail'[Len(trail')].conn \in {"Disconnected", "Connected"}

\* the run is leaving with a login failure
LeavingOnLoginFailure ==
    pc \in {"finally", "except"} /\ exc \in LoginFailures

\* C29: a login attempt that fails (the login of the run or the login of a
\* reconnect) takes the run to its exit with the failure as the error; from
\* there no reconnect and no fetch is made and the session is only closed,
\* until the run returns with ret_code False and the message of the failure
\* or the exception leaves get_mails_mbox.
C29_LoginFailureNotRetried ==
    [][ /\ FailedLoginStep =>
              (pc' \in {"finally", "except"} /\ exc' \in LoginFailures)
        /\ LeavingOnLoginFailure =>
              /\ trail' = trail
              /\ exc' = exc
              /\ mailconn' \in {mailconn, close(mailconn)}
              /\ pc' \in {"except", "returned", "raised"}
              /\ pc' = "returned" =>
                    /\ ~ret_code'
                    /\ last_error' = ErrMsg(exc)
                    /\ progress_cb =>
                          callbacks' = Append(callbacks, Cb("error", 0, 0, ErrMsg(exc)))
              /\ pc' = "raised" => ~Caught(exc)
      ]_vars

\* the login of a reconnect was rejected and the run returned the error
C29_Witness ==
    /\ pc = "returned"
    /\ ~ret_code
    /\ exc = "authfailed"
    /\ trail # << >>
    /\ trail[Len(trail)].ev = "reconnect"
    /\ trail[Len(trail)].conn = "Connected"
    /\ Len(trail) > 1

\* the step sent a fetch that raised TimeoutError
TimeoutFetchStep ==
    /\ trail' # trail
    /\ trail' # << >>
    /\ trail'[Len(trail')].ev = "fetch"
    /\ trail'[Len(trail')].why = "TimeoutError"

\* the messages of the connection, authentication and retrieval errors
OtherKinds == {ErrMsg("gaierror"), ErrMsg("authfailed"), ErrMsg("ValueError"),
               ErrMsg("error"), ErrMsg("abort")}

\* C30: a fetch that raises TimeoutError (first attempt or retry) takes the
\* run to its exit: no reconnect and no fetch follow, the container is
\* closed and unlocked, and the run returns with ret_code False and the
\* timeout message, which is none of the messages of the other error kinds.
C30_FetchTimeoutNotRetried ==
    [][ /\ TimeoutFetchStep => (pc' = "finally" /\ exc' = "TimeoutError")
        /\ (pc \in {"finally", "except"} /\ exc = "TimeoutError") =>
              /\ trail' = trail
              /\ exc' = exc
              /\ mailconn' \in {mailconn, close(mailconn)}
              /\ pc = "finally" =>
                    (pc' = "except" /\ ~dest_mbox'.open /\ ~dest_mbox'.locked)
              /\ pc = "except" =>
                    /\ pc' = "returned"
                    /\ ~ret_code'
                    /\ last_error' = "Delai de connexion depasse"
                    /\ last_error' \notin OtherKinds
                    /\ progress_cb =>
                          callbacks' = Append(callbacks,
                                              Cb("error", 0, 0, last_error'))
      ]_vars

\* the retry of a fetch timed out after an abort and a reconnect, and the
\* run returned the timeout error with its container closed
C30_Witness ==
    /\ pc = "returned"
    /\ last_error = "Delai de connexion depasse"
    /\ Len(trail) = 3
    /\ trail[1].ev = "fetch"
    /\ trail[2].ev = "reconnect"
    /\ trail[3].ev = "fetch"
    /\ trail[3].why = "TimeoutError"
    /\ ~dest_mbox.open

\* C33 as claimed: after start() and until end(), whatever the result went
\* through before, the counters are 0 and end_datetime is the start_datetime
\* just stamped (the skip list is empty right after start()); and
\* start_datetime <= end_datetime in every state.
C33_AsClaimed ==
    /\ pc = "login" => result.skip_mails = << >>
    /\ pc \notin {"idle", "returned", "raised", "end"} =>
          /\ result.total_mails = 0
          /\ result.download_mails = 0
          /\ result.end_datetime = result.start_datetime
    /\ result.start_datetime <= result.end_datetime

\* the same for the first start() of a fresh result
C33_FirstCycle ==
    (runs = 1 /\ pc \notin {"idle", "returned", "raised", "end"}) =>
       /\ result.total_mails = 0
       /\ result.download_mails = 0
       /\ result.end_datetime = result.start_datetime

\* C35: the expression is ALL without bounds, (SENTSINCE "01-Jan-<since>")
\* with the lower bound alone, (SENTBEFORE "31-Dec-<before>") with the upper
\* bound alone, and both criteria in one pair of parentheses, SENTSINCE
\* first, with both; exactly one of the four forms applies.
C35_SearchExpression ==
    manifest.op = "search" =>
       LET ys == manifest.years[1]
           yb == manifest.years[2]
           e == manifest.search[1]
           since == [key |-> "SENTSINCE", day |-> 1, month |-> "Jan",
                     year |-> IF ys = None THEN 0 ELSE ys[1]]
           before == [key |-> "SENTBEFORE", day |-> 31, month |-> "Dec",
                      year |-> IF yb = None THEN 0 ELSE yb[1]]
       IN
       /\ (ys = None /\ yb = None) <=> e.word = "ALL"
       /\ e.word = "ALL" <=> ~e.parens
       /\ e.word = "ALL" <=> e.crits = << >>
       /\ (ys # None /\ yb = None) <=> e.crits = <<since>>
       /\ (ys = None /\ yb # None) <=> e.crits = <<before>>
       /\ (ys # None /\ yb # None) <=> e.crits = <<since, before>>

\* the expression was built from two bounds
C35_Witness ==
    /\ manifest.op = "search"
    /\ manifest.years = <<Some(2020), Some(2021)>>
    /\ Len(manifest.search[1].crits) = 2

\* the terminal calls of progress_cb
Terminal == CbOf("complete") \cup CbOf("error")

\* start once and first, running at every fifth appended message, one warning
\* per skipped number, at most one terminal call and nothing after it
PhaseOrder ==
    /\ Cardinality(CbOf("start")) <= 1
    /\ \A i \in CbOf("running") \cup CbOf("warning") : 1 \in CbOf("start") /\ 1 < i
    /\ CbOf("start") # {} =>
          /\ {callbacks[i].num : i \in CbOf("running")} =
                {n \in 1..count_msgs : n % ProgressEvery = 0}
          /\ Cardinality(CbOf("running")) = count_msgs \div ProgressEvery
          /\ Cardinality(CbOf("warning")) = Len(result.skip_mails)
    /\ Cardinality(Terminal) <= 1
    /\ \A i \in Terminal : i = Len(callbacks)
    /\ \A i \in CbOf("complete") :
          callbacks[i].num = count_msgs /\ callbacks[i].total = Len(numbers)

\* C34: the callbacks of a run come in phase order (start once and first,
\* running at every multiple of 5 appended, one warning per skip) and every run
\* that is over has delivered exactly one terminal callback, its last one.
C34_AsClaimed ==
    progress_cb =>
       /\ PhaseOrder
       /\ pc \in {"returned", "raised"} => Cardinality(Terminal) = 1

\* the same for the runs that return to their caller
C34_ReturnedRuns ==
    progress_cb =>
       /\ PhaseOrder
       /\ pc = "returned" => Cardinality(Terminal) = 1

\* C36: whenever login() returns normally the session is Authenticated, also
\* when an earlier login() call was rejected by the server.
C36_AsClaimed ==
    (sess.last = "login" /\ sess.raised = "none") => mailconn = "Authenticated"

\* the scheduled reconnect is due before the next first fetch
Due == (count_msgs + 1) % threshold = 0

\* C37: before the first fetch of each planned message a scheduled reconnect
\* is made if and only if (messages appended so far + 1) is a multiple of
\* the threshold: the schedule follows the appended count, not the plan
\* position, so the message after a skipped one at a boundary reconnects too.
C37_ScheduleKeyedToCount ==
    [][(pc = "loop" /\ idx <= Len(numbers) /\ pc' # "loop") =>
          /\ Due <=> idx \in proactiveAt'
          /\ Due <=> /\ Len(trail') = 1
                     /\ trail'[1].ev = "reconnect"
                     /\ trail'[1].why = "proactive"
                     /\ trail'[1].wait = WaitDefault
          /\ ~Due <=> (trail' = << >> /\ mailconn' = mailconn)
          /\ count_msgs' = count_msgs /\ idx' = idx]_vars

\* messages 2 and 3 of a plan of 3 both had the scheduled reconnect, N = 2:
\* message 2 was skipped at the boundary
C37_Witness ==
    /\ threshold = 2
    /\ numbers = <<1, 2, 3>>
    /\ result.skip_mails = <<2>>
    /\ proactiveAt = {2, 3}
    /\ pc = "fetch1"

\* the fetch commands sent for the message being worked on
FetchesOfCurrent == {i \in 1..Len(trail) : trail[i].ev = "fetch"}

\* C38: every run of get_mails_mbox comes to its end, and each planned
\* number is fetched at most 3 times: the first attempt, one retry after an
\* abort, one retry after a NO.
C38_TerminatesWithin3 ==
    /\ [](/\ Cardinality(FetchesOfCurrent) <= 3
          /\ \A i, j \in FetchesOfCurrent : trail[i].num = trail[j].num
          /\ pc \in {"abortReconnect", "fetch2", "noReconnect", "fetch3",
                     "dispatch"} =>
                \A i \in FetchesOfCurrent : trail[i].num = numbers[idx])
    /\ (~Resting ~> Resting)

\* a message fetched three times: abort, NO after the retry, then a last try
C38_Witness ==
    /\ Cardinality(FetchesOfCurrent) = 3
    /\ trail[1].ev = "fetch" /\ trail[1].why = "abort"
    /\ pc = "dispatch"

\* the places of get_mails_mbox before the container is recreated, and the
\* except clauses
BeforeOpen == {"idle", "returned", "raised", "login", "select", "search", "except"}

\* C39: a run that fails before its search succeeded leaves the file at the
\* container path as it was: no step before line 476 and no except clause
\* changes the container, and the container is emptied only by the step that
\* follows a search answered OK.
C39_ContainerKeptUntilSearchOK ==
    [][/\ pc \in BeforeOpen => dest_mbox' = dest_mbox
       /\ (dest_mbox.msgs # << >> /\ dest_mbox'.msgs = << >>) =>
             /\ pc = "open"
             /\ progress_cb => CbOf("start") = {Len(callbacks)}]_vars

\* the second run failed before its search succeeded and the container of
\* the first run, with its messages, is still there
C39_Witness ==
    /\ runs = 2
    /\ pc = "returned"
    /\ ~ret_code
    /\ idx = 0
    /\ dest_mbox.exists
    /\ ~dest_mbox.locked
    /\ Len(dest_mbox.msgs) >= 1

\* the lines of the listing whose folder was kept, in order
KeptLines == SelectSeq(lf.data, LAMBDA d : d.kept)

\* C40: every folder of self.folders comes from one line of the listing and
\* carries the non-empty wire name of that line; a line that does not parse,
\* like one with an empty flag list, gives no folder with an empty name.
C40_AsClaimed ==
    /\ Len(lf.folders) = Len(KeptLines)
    /\ \A i \in 1..Len(lf.folders) :
          /\ lf.folders[i].name_in_mutf7 # << >>
          /\ lf.folders[i].name_in_mutf7 = KeptLines[i].name

\* the same for the lines that have at least one flag
C40_LinesWithFlags ==
    /\ Len(lf.folders) = Len(KeptLines)
    /\ \A i \in 1..Len(lf.folders) :
          KeptLines[i].flags # << >> =>
             /\ lf.folders[i].name_in_mutf7 # << >>
             /\ lf.folders[i].name_in_mutf7 = KeptLines[i].name

\* C31: at most one worker run is in progress at any time: no operation is
\* started, by button or by shortcut, while a worker thread is alive, and a
\* new retrieval never removes the container while a retrieval holds its lock.
C31_AsClaimed ==
    /\ Len(gui.threads) <= 1
    /\ ~gui.removed_locked

\* a retrieval started while another one held the lock of the container
C31_RemovedWhileLocked == gui.removed_locked

\* C32: two runs that differ only in the password, against the same server
\* responses, leave the same log lines, the same manifest and the same
\* bagit-info content.
C32_AsClaimed ==
    duo.pos = "done" => Outputs(duo.run[1]) = Outputs(duo.run[2])

\* the same for two passwords the ascii codec encodes, with the error text
C32_EncodablePasswords ==
    (duo.pos = "done" /\ NotAscii(duo.pw[1]) = {} /\ NotAscii(duo.pw[2]) = {}) =>
       /\ Outputs(duo.run[1]) = Outputs(duo.run[2])
       /\ duo.run[1].last_error = duo.run[2].last_error

\* last_error never holds a character of the password
C32_NoCharacterInError ==
    \A i \in 1..Len(duo.run) : duo.run[i].last_error.ch = 0

====
